---- MODULE Spec2Model ----
(***************************************************************************)
(* Verification model of the agent execution and tool resolution pipeline  *)
(* of nestjs-langchain: SecurityMiddleware (rate limiter, input guard),    *)
(* BaseAgentProvider.execute (before/after hooks), AgentService            *)
(* (executeAgent, executeAgentInternal, executeToolsDirectly), the tool   *)
(* adapters of DefaultToolCreationStrategy, validateAuthentication, the    *)
(* InMemoryAgentRepository and the AgentEventSubject.                      *)
(*                                                                         *)
(* Texts are sequences of one-character strings, so that substring search, *)
(* splitting and lower-casing are computed and not assumed.                *)
(***************************************************************************)
EXTENDS Integers, Sequences, FiniteSets, TLC

(***************************************************************************)
(* Bounds of the model.                                                    *)
(***************************************************************************)
MaxRequestsLimit == 2
MaxWindowSec == 1
MaxTime == 2000
MaxTools == 2
MaxNameLen == 1
MaxInputLen == 1

(***************************************************************************)
(* Values shared by the components.                                        *)
(***************************************************************************)
Undefined == "undefined"
Keys == {"k1", "k2"}
TickSteps == {400, 600}

\* A JavaScript Map whose iteration order does not matter here: a function
\* on the set of its keys.
EmptyMap == [k \in {} |-> Undefined]

MapSet(m, key, value) ==
    [k \in DOMAIN m \cup {key} |-> IF k = key THEN value ELSE m[k]]

(***************************************************************************)
(* Texts: JavaScript strings as sequences of characters.                   *)
(***************************************************************************)
Texts(alphabet, n) == UNION {[1..k -> alphabet] : k \in 0..n}

LowerCaseLetters ==
    << "a", "b", "c", "d", "e", "f", "g", "h", "i", "j", "k", "l", "m",
       "n", "o", "p", "q", "r", "s", "t", "u", "v", "w", "x", "y", "z" >>

UpperCaseLetters ==
    << "A", "B", "C", "D", "E", "F", "G", "H", "I", "J", "K", "L", "M",
       "N", "O", "P", "Q", "R", "S", "T", "U", "V", "W", "X", "Y", "Z" >>

DigitChars == << "0", "1", "2", "3", "4", "5", "6", "7", "8", "9" >>

Range(f) == {f[i] : i \in DOMAIN f}

Letters == Range(LowerCaseLetters) \cup Range(UpperCaseLetters)
Digits == Range(DigitChars)

\* \s of the regular expressions and the whitespace JSON.parse skips
Whitespace == {" ", "\t", "\n", "\r"}

UpperToLower ==
    [c \in Range(UpperCaseLetters) |->
        LowerCaseLetters[CHOOSE k \in 1..26 : UpperCaseLetters[k] = c]]

\* String.prototype.toLowerCase
ToLowerCase(s) ==
    [i \in 1..Len(s) |->
        IF s[i] \in DOMAIN UpperToLower THEN UpperToLower[s[i]] ELSE s[i]]

\* String.prototype.includes: `sub` occurs in `s` (the empty text always does)
Includes(s, sub) ==
    \E i \in 0..(Len(s) - Len(sub)) : SubSeq(s, i + 1, i + Len(sub)) = sub

\* String.prototype.split on a one-character separator: the pieces between
\* separators, empty pieces included ("a--b" gives "a", "", "b").
RECURSIVE Split(_, _)
Split(s, sep) ==
    IF \A i \in 1..Len(s) : s[i] # sep THEN <<s>>
    ELSE LET i == CHOOSE j \in 1..Len(s) :
                    s[j] = sep /\ \A k \in 1..(j - 1) : s[k] # sep
         IN <<SubSeq(s, 1, i - 1)>> \o Split(SubSeq(s, i + 1, Len(s)), sep)

VARIABLES
    now,              \* Date.now(), in milliseconds
    config,           \* SecurityMiddleware.config
    rateLimitStore,   \* SecurityMiddleware.rateLimitStore: key -> entry
    uncleaned,        \* the table of the same calls, had no cleanup run
    rlLast,           \* the answer of the last rateLimit call, as observed
    admitted,         \* per key: allowed answers since the key's window began
    agents,           \* InMemoryAgentRepository.agents: name -> record
    tools,            \* InMemoryAgentRepository.tools, in Map order
    aiProvider,       \* AgentFactory.aiProviderConfig
    agentProviders,   \* AgentProviderService.agentProviders: name -> instance
    pc,               \* where the request is in the pipeline
    provider,         \* the agent class whose provider serves the request
    context,          \* the context the caller passed to execute
    processedContext, \* the context execute hands to executeAgent
    deniedAtEntry,    \* would rateLimit have denied the request's key at entry
    trace,            \* the stages that ran for the request, in order
    modelInput,       \* the text handed to agentExecutor.invoke
    modelResult,      \* what agentExecutor.invoke did
    agentTools,       \* the tool adapters built for the request
    fbIdx,            \* executeToolsDirectly: index of the tool under scan
    invoked,          \* executeToolsDirectly: the adapters it called
    result,           \* what executeAgent returned to execute
    coreError,        \* what executeAgent threw to execute
    finalResult,      \* what execute returned to its caller
    error,            \* what execute threw to its caller
    events,           \* execution events emitted on the event subject
    adapter,          \* a call of a tool adapter's func, as observed
    validation,       \* a call of validateInput, as observed
    authentication,   \* a call of validateAuthentication, as observed
    repoLast,         \* the last call on the repository, as observed
    snapshot,         \* the Map a caller got from getAllAgents/getAllTools
    observers,        \* AgentEventSubject.observers, in array order
    notify,           \* notifyObservers: the forEach under way
    observed,         \* a call of generateRateLimitKey, as observed
    sharedLLM,        \* providerConfig.customLLM: the fields of the instance
    inflight          \* per request on the custom provider: its position

rlVars == <<now, config, rateLimitStore, uncleaned, rlLast, admitted>>
regVars == <<agents, tools, aiProvider, agentProviders>>
reqVars == <<pc, provider, context, processedContext, deniedAtEntry, trace,
             modelInput, modelResult, agentTools, fbIdx, invoked, result,
             coreError, finalResult, error, events>>
repoVars == <<repoLast, snapshot>>
busVars == <<observers, notify>>
llmVars == <<sharedLLM, inflight>>
callVars == <<adapter, validation, authentication, repoVars, busVars,
              observed, llmVars>>
vars == <<rlVars, regVars, reqVars, callVars>>

(***************************************************************************)
(* SecurityMiddleware: the rate limiter.                                   *)
(***************************************************************************)
NoRateLimit == [enabled |-> FALSE]

RateLimitConfigs ==
    [enabled : {TRUE}, maxRequests : 1..MaxRequestsLimit,
     windowMs : 1..MaxWindowSec]

\* rateLimit with the limit test off by one (`>` for `>=`)
RateLimitBranchLax(store, cfg, t, key) ==
    IF key \notin DOMAIN store \/ store[key].resetTime <= t THEN "new"
    ELSE IF store[key].count > cfg.maxRequests THEN "deny"
    ELSE "increment"

\* The branch rateLimit takes on `key`: a fresh window, a denial or an
\* increment of the stored count.
RateLimitBranch(store, cfg, t, key) ==
    IF key \notin DOMAIN store \/ store[key].resetTime <= t THEN "new"
    ELSE IF store[key].count >= cfg.maxRequests THEN "deny"
    ELSE "increment"

\* RateLimitResult, were `remaining` computed before the increment
RateLimitResultBeforeIncrement(store, cfg, t, key) ==
    LET current == store[key]
        branch == RateLimitBranch(store, cfg, t, key) IN
    IF ~cfg.enabled THEN [allowed |-> TRUE, remaining |-> -1, resetTime |-> 0]
    ELSE IF branch = "new" THEN
        [allowed |-> TRUE, remaining |-> cfg.maxRequests - 1,
         resetTime |-> t + cfg.windowMs * 1000]
    ELSE IF branch = "deny" THEN
        [allowed |-> FALSE, remaining |-> 0, resetTime |-> current.resetTime]
    ELSE
        [allowed |-> TRUE, remaining |-> cfg.maxRequests - current.count,
         resetTime |-> current.resetTime]

\* The value rateLimit returns.
RateLimitResult(store, cfg, t, key) ==
    LET current == store[key]
        branch == RateLimitBranch(store, cfg, t, key) IN
    IF ~cfg.enabled THEN [allowed |-> TRUE, remaining |-> -1, resetTime |-> 0]
    ELSE IF branch = "new" THEN
        [allowed |-> TRUE, remaining |-> cfg.maxRequests - 1,
         resetTime |-> t + cfg.windowMs * 1000]
    ELSE IF branch = "deny" THEN
        [allowed |-> FALSE, remaining |-> 0, resetTime |-> current.resetTime]
    ELSE
        [allowed |-> TRUE, remaining |-> cfg.maxRequests - (current.count + 1),
         resetTime |-> current.resetTime]

\* RateLimitStoreAfter, were the increment written from a count read
\* before another request's increment (a lost update)
RateLimitStoreAfterLostUpdate(store, cfg, t, key) ==
    LET current == store[key]
        branch == RateLimitBranch(store, cfg, t, key) IN
    IF ~cfg.enabled THEN store
    ELSE IF branch = "new" THEN
        MapSet(store, key, [count |-> 1,
                            resetTime |-> t + cfg.windowMs * 1000])
    ELSE store

\* RateLimitStoreAfter, were a denied call to start the key's window anew
RateLimitStoreAfterSliding(store, cfg, t, key) ==
    LET current == store[key]
        branch == RateLimitBranch(store, cfg, t, key) IN
    IF ~cfg.enabled THEN store
    ELSE IF branch = "new" THEN
        MapSet(store, key, [count |-> 1,
                            resetTime |-> t + cfg.windowMs * 1000])
    ELSE IF branch = "deny" THEN
        MapSet(store, key, [count |-> current.count,
                            resetTime |-> t + cfg.windowMs * 1000])
    ELSE MapSet(store, key, [count |-> current.count + 1,
                             resetTime |-> current.resetTime])

\* The table rateLimit leaves behind.
RateLimitStoreAfter(store, cfg, t, key) ==
    LET current == store[key]
        branch == RateLimitBranch(store, cfg, t, key) IN
    IF ~cfg.enabled THEN store
    ELSE IF branch = "new" THEN
        MapSet(store, key, [count |-> 1,
                            resetTime |-> t + cfg.windowMs * 1000])
    ELSE IF branch = "deny" THEN store
    ELSE MapSet(store, key, [count |-> current.count + 1,
                             resetTime |-> current.resetTime])

NoCall ==
    [called |-> FALSE, key |-> "", allowed |-> TRUE, remaining |-> 0,
     resetTime |-> 0, inWindow |-> FALSE, admittedBefore |-> 0]

\* One call rateLimit(key).  rlLast and admitted record what a caller
\* observes: the answer, whether the call fell inside a window that was
\* already open, and how many calls that window had admitted before.
RateLimit(key) ==
    LET cfg == config.rateLimit
        res == RateLimitResult(rateLimitStore, cfg, now, key)
        inWindow == /\ key \in DOMAIN rateLimitStore
                    /\ now < rateLimitStore[key].resetTime
        before == IF inWindow THEN admitted[key] ELSE 0 IN
    /\ rateLimitStore' = RateLimitStoreAfter(rateLimitStore, cfg, now, key)
    /\ uncleaned' = RateLimitStoreAfter(uncleaned, cfg, now, key)
    /\ rlLast' = [called |-> TRUE, key |-> key, allowed |-> res.allowed,
                  remaining |-> res.remaining, resetTime |-> res.resetTime,
                  inWindow |-> inWindow, admittedBefore |-> before]
    /\ admitted' = [admitted EXCEPT
                      ![key] = before + (IF res.allowed THEN 1 ELSE 0)]
    /\ UNCHANGED <<now, config, regVars, reqVars,
                   callVars>>

\* a cleanup that also drops the windows that are about to end
CleanedStoreEarly(store, t) ==
    [k \in {j \in DOMAIN store : ~(store[j].resetTime <= t + 1000)} |->
        store[k]]

\* the loop of cleanupRateLimitStore: the table without the entries whose
\* resetTime is not after `t`
CleanedStore(store, t) ==
    [k \in {j \in DOMAIN store : ~(store[j].resetTime <= t)} |-> store[k]]

\* cleanupRateLimitStore: drop every entry whose window has elapsed.
CleanupRateLimitStore ==
    /\ rateLimitStore' = CleanedStore(rateLimitStore, now)
    /\ UNCHANGED <<now, config, uncleaned, rlLast, admitted, regVars, reqVars,
                   callVars>>

\* The clock advances.
Tick ==
    /\ \E d \in TickSteps : now + d <= MaxTime /\ now' = now + d
    /\ UNCHANGED <<config, rateLimitStore, uncleaned, rlLast, admitted,
                   regVars, reqVars,
                   callVars>>

(***************************************************************************)
(* SecurityMiddleware: the input guard and the key derivation.             *)
(***************************************************************************)
\* validateInput, the length check: a configured maximum that the input
\* exceeds (a maximum of 0 stands for "not configured").
ExceedsMaxLength(cfg, input) ==
    cfg.maxInputLength # 0 /\ Len(input) > cfg.maxInputLength

NoKeyCall == [called |-> FALSE]

\* no custom LLM instance is configured, and no request is on the way to it
NoCustomLLM == [present |-> FALSE]
NoRequests == <<>>

\* the default derivation, were the user id asked before the address
GenerateRateLimitKeyUserFirst(ctx) ==
    IF ctx.userId # "" THEN ctx.userId
    ELSE IF ctx.ip # "" THEN ctx.ip
    ELSE IF ctx.sessionId # "" THEN ctx.sessionId
    ELSE "anonymous"

\* generateRateLimitKey, default derivation ("" stands for an absent field)
GenerateRateLimitKey(ctx) ==
    IF ctx.ip # "" THEN ctx.ip
    ELSE IF ctx.userId # "" THEN ctx.userId
    ELSE IF ctx.sessionId # "" THEN ctx.sessionId
    ELSE "anonymous"

\* the key generators a host configures: none, `(req) => req.ip` (the one
\* of the documentation), `(req) => req.sessionId`, and `() => 'tenant'`
KeyGenerators == {"none", "ip", "session", "tenant"}

\* what a call returned: a value, or a TypeError thrown by the generator
Returned(value) == [threw |-> FALSE, value |-> value]
Thrown == [threw |-> TRUE, value |-> "TypeError"]

\* the configured key generator applied to the context.  The property of a
\* null context cannot be read; an absent property reads as undefined.
KeyGenerator(keyGenerator, ctx) ==
    IF keyGenerator = "tenant" THEN Returned("tenant")
    ELSE IF ctx.null THEN Thrown
    ELSE IF keyGenerator = "ip"
    THEN Returned(IF ctx.ip = "" THEN Undefined ELSE ctx.ip)
    ELSE Returned(IF ctx.sessionId = "" THEN Undefined ELSE ctx.sessionId)

\* generateRateLimitKey under a configuration: the configured generator
\* decides when there is one
GenerateRateLimitKeyWith(keyGenerator, ctx) ==
    IF keyGenerator # "none" THEN KeyGenerator(keyGenerator, ctx)
    ELSE Returned(GenerateRateLimitKey(ctx))

\* a call of generateRateLimitKey by the host
CallGenerateRateLimitKey(keyGenerator, ctx) ==
    /\ observed' = [called |-> TRUE, keyGenerator |-> keyGenerator,
                    context |-> ctx,
                    result |-> GenerateRateLimitKeyWith(keyGenerator, ctx)]
    /\ UNCHANGED <<adapter, validation, authentication, repoVars, busVars,
                   llmVars, rlVars, regVars, reqVars>>

(***************************************************************************)
(* The agent classes of the host application and the registry.             *)
(***************************************************************************)
NoParameters == <<>>
RequiredQ == <<[name |-> "q", required |-> TRUE]>>

ToolMetadata(name, description, parameters) ==
    [name |-> name, description |-> description, parameters |-> parameters]

AgentClasses == {"AlphaAgent", "BetaAgent"}

\* @Agent metadata: the agent's name
AgentNameOf(cls) ==
    IF cls = "AlphaAgent" THEN "alpha"
    ELSE IF cls = "BetaAgent" THEN "beta"
    ELSE IF cls = "DescribedAgent" THEN "described"
    ELSE "comprehensive-ai-agent"

\* the provider instance Nest creates for the class
InstanceOf(cls) ==
    IF cls = "AlphaAgent" THEN "i1"
    ELSE IF cls = "BetaAgent" THEN "i2"
    ELSE IF cls = "DescribedAgent" THEN "i4"
    ELSE "i3"

\* @Tool metadata of the class, in declaration order
DeclaredTools(cls) ==
    IF cls = "AlphaAgent"
    THEN << ToolMetadata(<<"A", "-", "b">>, <<>>, RequiredQ),
            ToolMetadata(<<"A">>, <<"b", "b", "b", "b", " ", "a">>,
                         NoParameters) >>
    ELSE IF cls = "BetaAgent"
    THEN << ToolMetadata(<<"B">>, <<>>, NoParameters),
            ToolMetadata(<<"A">>, <<>>, NoParameters) >>
    ELSE IF cls = "DescribedAgent"
    THEN << >>
    ELSE << ToolMetadata(<<"c", "a", "l", "c", "u", "l", "a", "t", "e">>,
                         <<>>,
                         << [name |-> "operation", required |-> TRUE],
                            [name |-> "a", required |-> TRUE],
                            [name |-> "b", required |-> FALSE] >>) >>

\* a table that takes every saved tool as a new entry
SaveToolAppend(table, tool) == Append(table, tool)

\* Map.set on the ordered tool table: a new name is appended, a known name
\* keeps its position and takes the new value.
SaveTool(table, tool) ==
    IF \E i \in 1..Len(table) : table[i].name = tool.name
    THEN [i \in 1..Len(table) |->
            IF table[i].name = tool.name THEN tool ELSE table[i]]
    ELSE Append(table, tool)

RECURSIVE SaveTools(_, _)
SaveTools(table, newTools) ==
    IF newTools = <<>> THEN table
    ELSE SaveTools(SaveTool(table, Head(newTools)), Tail(newTools))

\* AgentService.registerAgent: the record saved under the agent's name
RegisterAgent(table, cls) ==
    MapSet(table, AgentNameOf(cls), [instance |-> InstanceOf(cls)])

\* AgentService.registerTools: every declared tool is saved with the
\* instance that owns it.
RegisterTools(table, cls) ==
    SaveTools(table,
              [i \in 1..Len(DeclaredTools(cls)) |->
                  [name |-> DeclaredTools(cls)[i].name,
                   description |-> DeclaredTools(cls)[i].description,
                   parameters |-> DeclaredTools(cls)[i].parameters,
                   instance |-> InstanceOf(cls)]])

\* The members of a provider instance that discovery looks at.  Every class
\* extends BaseAgentProvider, which gives it execute and makes it declare
\* agentName; BaseAgentProvider has no getMetadata, so only a class that
\* defines the method itself has one.
ProviderMembers(cls) ==
    [agentName |-> TRUE, execute |-> TRUE,
     getMetadata |-> (cls = "DescribedAgent")]

\* ModuleDiscoveryService.isAgentProvider
IsAgentProvider(members) ==
    /\ members.agentName
    /\ members.execute
    /\ members.getMetadata

\* AgentProviderService.registerAgentProvider, for the instances that pass
\* isAgentProvider
RegisterAgentProvider(table, cls) ==
    IF IsAgentProvider(ProviderMembers(cls))
    THEN MapSet(table, AgentNameOf(cls), InstanceOf(cls))
    ELSE table

\* ModuleDiscoveryService.onModuleInit, one provider of its loop: the
\* provider is registered when it passes isAgentProvider, then the agent
\* and its tools are registered.  Discovery runs at start-up, before
\* requests are served.
DiscoverProvider(cls) ==
    /\ pc = "idle"
    /\ agentProviders' = RegisterAgentProvider(agentProviders, cls)
    /\ agents' = RegisterAgent(agents, cls)
    /\ tools' = RegisterTools(tools, cls)
    /\ UNCHANGED <<aiProvider, rlVars, reqVars, callVars>>

(***************************************************************************)
(* InMemoryAgentRepository: the calls on the two Maps, and what a caller   *)
(* can do with the Map that getAllAgents or getAllTools hands out.         *)
(***************************************************************************)
\* Map.delete on the agent table
MapDelete(m, key) == [k \in DOMAIN m \ {key} |-> m[k]]

\* Map.delete on the ordered tool table
DeleteTool(table, name) == SelectSeq(table, LAMBDA t : t.name # name)

\* Map.has on the ordered tool table
HasTool(table, name) == \E i \in 1..Len(table) : table[i].name = name

\* what a lookup returns: undefined, or the record
Absent == <<>>
Present(record) == <<record>>

\* getAgent
GetAgent(table, name) ==
    IF name \in DOMAIN table THEN Present(table[name]) ELSE Absent

\* agentExists
AgentExists(table, name) == name \in DOMAIN table

\* getTool
GetTool(table, name) ==
    IF HasTool(table, name)
    THEN Present(table[CHOOSE i \in 1..Len(table) : table[i].name = name])
    ELSE Absent

\* the number of entries of the ordered tool table
ToolCount(table) == Len(table)

\* the number of entries of the agent table
AgentCount(table) == Cardinality(DOMAIN table)

\* the tool table with one field of the record under a name assigned
WriteTool(table, name, instance) ==
    [i \in 1..Len(table) |->
        IF table[i].name = name
        THEN [table[i] EXCEPT !.instance = instance]
        ELSE table[i]]

\* the agent table with one field of the record under a name assigned
WriteAgent(table, name, instance) ==
    [k \in DOMAIN table |->
        IF k = name THEN [table[k] EXCEPT !.instance = instance]
        ELSE table[k]]

NoRepositoryCall == [op |-> "none", flip |-> 0]

RepositoryCall(op, name, record, existed, sizeBefore, answer) ==
    [op |-> op, name |-> name, record |-> record, existed |-> existed,
     sizeBefore |-> sizeBefore, answer |-> answer,
     flip |-> 1 - repoLast.flip]

NoSnapshot == [taken |-> FALSE]

\* new Map(map): a new Map whose entries are the very objects of the
\* copied Map; shared holds the names whose object the repository still
\* holds.
SnapshotOf(of, entries, names) ==
    [taken |-> TRUE, of |-> of, entries |-> entries, shared |-> names]

ToolKeys(table) == {table[i].name : i \in 1..Len(table)}

\* the caller's Map once the repository or the caller has put another
\* object, or none, under a name
Unshare(snap, of, name) ==
    IF snap.taken /\ snap.of = of
    THEN [snap EXCEPT !.shared = @ \ {name}]
    ELSE snap

\* saveAgent
CallSaveAgent(name, instance) ==
    /\ agents' = MapSet(agents, name, [instance |-> instance])
    /\ repoLast' = RepositoryCall("saveAgent", name,
                                  Present([instance |-> instance]),
                                  AgentExists(agents, name),
                                  AgentCount(agents), Undefined)
    /\ snapshot' = Unshare(snapshot, "agents", name)
    /\ UNCHANGED <<tools, aiProvider, agentProviders, rlVars, reqVars,
                   adapter, validation,
                   authentication, busVars,
                   observed, llmVars>>

\* deleteAgent
CallDeleteAgent(name) ==
    /\ agents' = MapDelete(agents, name)
    /\ repoLast' = RepositoryCall("deleteAgent", name, Absent,
                                  AgentExists(agents, name),
                                  AgentCount(agents),
                                  AgentExists(agents, name))
    /\ snapshot' = Unshare(snapshot, "agents", name)
    /\ UNCHANGED <<tools, aiProvider, agentProviders, rlVars, reqVars,
                   adapter, validation,
                   authentication, busVars,
                   observed, llmVars>>

\* saveTool, called as registerTools and registerCustomTool call it: under
\* the tool's name
CallSaveTool(tool) ==
    /\ tools' = SaveTool(tools, tool)
    /\ repoLast' = RepositoryCall("saveTool", tool.name, Present(tool),
                                  HasTool(tools, tool.name),
                                  ToolCount(tools), Undefined)
    /\ snapshot' = Unshare(snapshot, "tools", tool.name)
    /\ UNCHANGED <<agents, aiProvider, agentProviders, rlVars, reqVars,
                   adapter, validation,
                   authentication, busVars,
                   observed, llmVars>>

\* deleteTool
CallDeleteTool(name) ==
    /\ tools' = DeleteTool(tools, name)
    /\ repoLast' = RepositoryCall("deleteTool", name, Absent,
                                  HasTool(tools, name), ToolCount(tools),
                                  HasTool(tools, name))
    /\ snapshot' = Unshare(snapshot, "tools", name)
    /\ UNCHANGED <<agents, aiProvider, agentProviders, rlVars, reqVars,
                   adapter, validation,
                   authentication, busVars,
                   observed, llmVars>>

\* getAllAgents
CallGetAllAgents ==
    /\ snapshot' = SnapshotOf("agents", agents, DOMAIN agents)
    /\ repoLast' = RepositoryCall("getAllAgents", Undefined, Absent,
                                  FALSE, AgentCount(agents), Undefined)
    /\ UNCHANGED <<regVars, rlVars, reqVars, adapter, validation,
                   authentication, busVars,
                   observed, llmVars>>

\* getAllTools
CallGetAllTools ==
    /\ snapshot' = SnapshotOf("tools", tools, ToolKeys(tools))
    /\ repoLast' = RepositoryCall("getAllTools", Undefined, Absent,
                                  FALSE, ToolCount(tools), Undefined)
    /\ UNCHANGED <<regVars, rlVars, reqVars, adapter, validation,
                   authentication, busVars,
                   observed, llmVars>>

\* the caller of getAll: Map.set of a new object on the returned Map
SnapshotSet(name, record) ==
    /\ snapshot.taken
    /\ snapshot' =
         [snapshot EXCEPT
            !.entries = IF snapshot.of = "agents"
                        THEN MapSet(@, name, record)
                        ELSE SaveTool(@, record),
            !.shared = @ \ {name}]
    /\ UNCHANGED <<regVars, rlVars, reqVars, adapter, validation,
                   authentication, repoLast, busVars,
                   observed, llmVars>>

\* the caller of getAll: Map.delete on the returned Map
SnapshotDelete(name) ==
    /\ snapshot.taken
    /\ snapshot' =
         [snapshot EXCEPT
            !.entries = IF snapshot.of = "agents"
                        THEN MapDelete(@, name)
                        ELSE DeleteTool(@, name),
            !.shared = @ \ {name}]
    /\ UNCHANGED <<regVars, rlVars, reqVars, adapter, validation,
                   authentication, repoLast, busVars,
                   observed, llmVars>>

\* the caller of getAll: an assignment to a field of the record that the
\* returned Map holds under a name.  The record is an object; the
\* repository's Map holds the same object for as long as the name is shared.
SnapshotWrite(name, instance) ==
    /\ snapshot.taken
    /\ IF snapshot.of = "agents"
       THEN /\ name \in DOMAIN snapshot.entries
            /\ snapshot' = [snapshot EXCEPT
                  !.entries = WriteAgent(@, name, instance)]
            /\ agents' = IF name \in snapshot.shared
                         THEN WriteAgent(agents, name, instance)
                         ELSE agents
            /\ UNCHANGED tools
       ELSE /\ HasTool(snapshot.entries, name)
            /\ snapshot' = [snapshot EXCEPT
                  !.entries = WriteTool(@, name, instance)]
            /\ tools' = IF name \in snapshot.shared
                        THEN WriteTool(tools, name, instance)
                        ELSE tools
            /\ UNCHANGED agents
    /\ UNCHANGED <<aiProvider, agentProviders, rlVars, reqVars,
                   adapter, validation,
                   authentication, repoLast, busVars,
                   observed, llmVars>>

(***************************************************************************)
(* AgentEventSubject: the observers and notifyObservers.                   *)
(***************************************************************************)
\* the observers of the runs: AgentEventLogger, and three observers of the
\* host: one that returns, one whose onAgentEvent throws, and one that
\* removes itself from the subject when it has handled an event
Observers == {"AgentEventLogger", "audit", "failing", "once"}

AgentEventTypes ==
    {"agent_registered", "agent_executed", "agent_error", "tool_registered"}

\* what an observer's onAgentEvent does
OnAgentEvent(observer) ==
    IF observer = "failing" THEN "throws"
    ELSE IF observer = "once" THEN "removes itself"
    ELSE "returns"

NoNotification ==
    [active |-> FALSE, done |-> FALSE, type |-> "", k |-> 0, len |-> 0,
     registered |-> <<>>, delivered |-> <<>>, threw |-> FALSE]

\* indexOf and splice(index, 1): the array without the first occurrence
\* of the observer
Splice(array, observer) ==
    IF \A i \in 1..Len(array) : array[i] # observer THEN array
    ELSE LET index == CHOOSE i \in 1..Len(array) :
                        /\ array[i] = observer
                        /\ \A j \in 1..(i - 1) : array[j] # observer
         IN SubSeq(array, 1, index - 1) \o SubSeq(array, index + 1, Len(array))

\* the forEach of notifyObservers from index k on, as one call: whether an
\* observer threw, the observers that were handed the event, and the array
\* as the loop left it
RECURSIVE ForEach(_, _, _, _)
ForEach(array, k, len, delivered) ==
    IF k > len
    THEN [threw |-> FALSE, delivered |-> delivered, observers |-> array]
    ELSE IF k > Len(array) THEN ForEach(array, k + 1, len, delivered)
    ELSE IF OnAgentEvent(array[k]) = "throws"
    THEN [threw |-> TRUE, delivered |-> Append(delivered, array[k]),
          observers |-> array]
    ELSE ForEach(IF OnAgentEvent(array[k]) = "removes itself"
                 THEN Splice(array, array[k]) ELSE array,
                 k + 1, len, Append(delivered, array[k]))

\* an emit function called with the observers as they are: does it throw
EmitThrows == ForEach(observers, 1, Len(observers), <<>>).threw

\* the error of an observer
ObserverError == "observer failure"

\* the catch of executeAgent: emitAgentError comes before `throw error`, so
\* an observer that throws on the event replaces the error
ErrorAfterEmit(e) == IF EmitThrows THEN ObserverError ELSE e

\* addObserver
AddObserver(observer) ==
    /\ ~notify.active
    /\ \A i \in 1..Len(observers) : observers[i] # observer
    /\ observers' = Append(observers, observer)
    /\ UNCHANGED <<notify, rlVars, regVars, reqVars, adapter, validation,
                   authentication, repoVars,
                   observed, llmVars>>

\* removeObserver, called between notifications
RemoveObserver(observer) ==
    /\ ~notify.active
    /\ observers' = Splice(observers, observer)
    /\ UNCHANGED <<notify, rlVars, regVars, reqVars, adapter, validation,
                   authentication, repoVars,
                   observed, llmVars>>

\* notifyObservers is entered by one of the emit functions: forEach reads
\* the length of the array once and starts at its first index.
NotifyObservers(type) ==
    /\ ~notify.active
    /\ notify' = [active |-> TRUE, done |-> FALSE, type |-> type, k |-> 1,
                  len |-> Len(observers), registered |-> observers,
                  delivered |-> <<>>, threw |-> FALSE]
    /\ UNCHANGED <<observers, rlVars, regVars, reqVars, adapter, validation,
                   authentication, repoVars,
                   observed, llmVars>>

\* one round of the forEach of notifyObservers: past the length read at the
\* start the loop ends and the emit function returns; an index the array no
\* longer has is passed over; otherwise the observer at the index of the
\* array as it is now handles the event.  An observer that throws ends the
\* loop: the error leaves notifyObservers and the emit function.
ForEachRound ==
    /\ notify.active
    /\ IF notify.k > notify.len
       THEN /\ notify' = [notify EXCEPT !.active = FALSE, !.done = TRUE]
            /\ UNCHANGED observers
       ELSE IF notify.k > Len(observers)
       THEN /\ notify' = [notify EXCEPT !.k = @ + 1]
            /\ UNCHANGED observers
       ELSE \E observer \in {observers[notify.k]} :
              /\ notify' =
                   IF OnAgentEvent(observer) = "throws"
                   THEN [notify EXCEPT !.delivered = Append(@, observer),
                                       !.active = FALSE, !.done = TRUE,
                                       !.threw = TRUE]
                   ELSE [notify EXCEPT !.delivered = Append(@, observer),
                                       !.k = @ + 1]
              /\ observers' =
                   IF OnAgentEvent(observer) = "removes itself"
                   THEN Splice(observers, observer)
                   ELSE observers
    /\ UNCHANGED <<rlVars, regVars, reqVars, adapter, validation,
                   authentication, repoVars,
                   observed, llmVars>>

(***************************************************************************)
(* DefaultToolCreationStrategy: the tool adapters.                         *)
(***************************************************************************)
(***************************************************************************)
(* JavaScript values: the results of JSON.parse, parseFloat and the        *)
(* regular-expression captures.                                            *)
(***************************************************************************)
JNull == [t |-> "null"]
JBoolean(b) == [t |-> "boolean", b |-> b]
JString(str) == [t |-> "string", str |-> str]
\* a number: sign, integer part and the fraction digits without trailing
\* zeros, so that 2, 2.0 and 2.00 are one value
JNumber(neg, int, frac) ==
    [t |-> "number", neg |-> neg /\ (int # 0 \/ frac # <<>>), int |-> int,
     frac |-> frac]
\* an object: its members in insertion order, each key once
JObject(members) == [t |-> "object", members |-> members]
JArray(items) == [t |-> "array", items |-> items]

DigitValue(c) == (CHOOSE k \in 1..10 : DigitChars[k] = c) - 1

RECURSIVE ToNat(_)
ToNat(ds) ==
    IF ds = <<>> THEN 0
    ELSE 10 * ToNat(SubSeq(ds, 1, Len(ds) - 1)) + DigitValue(ds[Len(ds)])

RECURSIVE StripTrailingZeros(_)
StripTrailingZeros(ds) ==
    IF ds # <<>> /\ ds[Len(ds)] = "0"
    THEN StripTrailingZeros(SubSeq(ds, 1, Len(ds) - 1))
    ELSE ds

\* the first position at or after i that holds no character of `class`
RECURSIVE RunEnd(_, _, _)
RunEnd(s, i, class) ==
    IF i <= Len(s) /\ s[i] \in class THEN RunEnd(s, i + 1, class) ELSE i

SkipWhitespace(s, i) == RunEnd(s, i, Whitespace)

StartsWithAt(s, i, word) ==
    i + Len(word) - 1 <= Len(s) /\ SubSeq(s, i, i + Len(word) - 1) = word

(***************************************************************************)
(* JSON.parse, by recursive descent.  A parse step answers whether it      *)
(* succeeded, the value and the position after it.  Escape sequences in    *)
(* strings and exponents in numbers are outside the input alphabets of the *)
(* model: the parser is not defined on them.                               *)
(***************************************************************************)
ParseFail == [ok |-> FALSE, val |-> JNull, next |-> 0]
ParseOk(val, next) == [ok |-> TRUE, val |-> val, next |-> next]

ParseString(s, i) ==
    LET closing == {j \in (i + 1)..Len(s) : s[j] = "\""} IN
    IF closing = {} THEN ParseFail
    ELSE LET j == CHOOSE c \in closing : \A d \in closing : c <= d IN
         CASE \A k \in (i + 1)..(j - 1) : s[k] # "\\" ->
              ParseOk(JString(SubSeq(s, i + 1, j - 1)), j + 1)

ParseNumber(s, i) ==
    LET neg == s[i] = "-"
        j == IF neg THEN i + 1 ELSE i
        intEnd == IF j <= Len(s) /\ s[j] = "0" THEN j + 1
                  ELSE RunEnd(s, j, Digits)
        hasFrac == intEnd <= Len(s) /\ s[intEnd] = "."
        fracEnd == IF hasFrac THEN RunEnd(s, intEnd + 1, Digits) ELSE intEnd
        frac == IF hasFrac THEN SubSeq(s, intEnd + 1, fracEnd - 1) ELSE <<>>
    IN IF intEnd = j \/ (hasFrac /\ fracEnd = intEnd + 1) THEN ParseFail
       ELSE CASE ~(fracEnd <= Len(s) /\ s[fracEnd] \in {"e", "E"}) ->
                 ParseOk(JNumber(neg, ToNat(SubSeq(s, j, intEnd - 1)),
                                 StripTrailingZeros(frac)),
                         fracEnd)

\* obj[key] = val: a repeated key keeps its place and takes the new value
SetMember(members, key, val) ==
    IF \E k \in 1..Len(members) : members[k].key = key
    THEN [k \in 1..Len(members) |->
            IF members[k].key = key THEN [key |-> key, val |-> val]
            ELSE members[k]]
    ELSE Append(members, [key |-> key, val |-> val])

RECURSIVE ParseValue(_, _)
RECURSIVE ParseMembers(_, _, _)
RECURSIVE ParseElements(_, _, _)

\* a value starting at position i, which follows skipped whitespace
ParseValue(s, i) ==
    IF i > Len(s) THEN ParseFail
    ELSE CASE s[i] = "{" ->
                LET j == SkipWhitespace(s, i + 1) IN
                IF j <= Len(s) /\ s[j] = "}" THEN ParseOk(JObject(<<>>), j + 1)
                ELSE ParseMembers(s, j, <<>>)
           [] s[i] = "[" ->
                LET j == SkipWhitespace(s, i + 1) IN
                IF j <= Len(s) /\ s[j] = "]" THEN ParseOk(JArray(<<>>), j + 1)
                ELSE ParseElements(s, j, <<>>)
           [] s[i] = "\"" -> ParseString(s, i)
           [] s[i] \in Digits \cup {"-"} -> ParseNumber(s, i)
           [] StartsWithAt(s, i, <<"t", "r", "u", "e">>) ->
                ParseOk(JBoolean(TRUE), i + 4)
           [] StartsWithAt(s, i, <<"f", "a", "l", "s", "e">>) ->
                ParseOk(JBoolean(FALSE), i + 5)
           [] StartsWithAt(s, i, <<"n", "u", "l", "l">>) ->
                ParseOk(JNull, i + 4)
           [] OTHER -> ParseFail

\* the members of an object from position i, after those of `acc`
ParseMembers(s, i, acc) ==
    IF i > Len(s) \/ s[i] # "\"" THEN ParseFail
    ELSE LET key == ParseString(s, i) IN
         IF ~key.ok THEN ParseFail
         ELSE LET colon == SkipWhitespace(s, key.next) IN
              IF colon > Len(s) \/ s[colon] # ":" THEN ParseFail
              ELSE LET v == ParseValue(s, SkipWhitespace(s, colon + 1)) IN
                   IF ~v.ok THEN ParseFail
                   ELSE LET e == SkipWhitespace(s, v.next)
                            members == SetMember(acc, key.val.str, v.val)
                        IN IF e > Len(s) THEN ParseFail
                           ELSE IF s[e] = ","
                           THEN ParseMembers(s, SkipWhitespace(s, e + 1),
                                             members)
                           ELSE IF s[e] = "}"
                           THEN ParseOk(JObject(members), e + 1)
                           ELSE ParseFail

\* the elements of an array from position i, after those of `acc`
ParseElements(s, i, acc) ==
    LET v == ParseValue(s, i) IN
    IF ~v.ok THEN ParseFail
    ELSE LET e == SkipWhitespace(s, v.next)
             items == Append(acc, v.val)
         IN IF e > Len(s) THEN ParseFail
            ELSE IF s[e] = ","
            THEN ParseElements(s, SkipWhitespace(s, e + 1), items)
            ELSE IF s[e] = "]" THEN ParseOk(JArray(items), e + 1)
            ELSE ParseFail

\* JSON.parse: ok = FALSE stands for the SyntaxError it throws
JSONParse(input) ==
    LET v == ParseValue(input, SkipWhitespace(input, 1)) IN
    IF v.ok /\ SkipWhitespace(input, v.next) = Len(input) + 1
    THEN [ok |-> TRUE, val |-> v.val]
    ELSE [ok |-> FALSE, val |-> JNull]

(***************************************************************************)
(* extractParameterFromString: the regular expressions, computed on the    *)
(* characters.  A result is the value found, or found = FALSE for null.    *)
(***************************************************************************)
Min(S) == CHOOSE x \in S : \A y \in S : x <= y
Max(S) == CHOOSE x \in S : \A y \in S : x >= y

\* String.prototype.trim
Trim(s) ==
    LET kept == {i \in 1..Len(s) : s[i] \notin Whitespace} IN
    IF kept = {} THEN <<>> ELSE SubSeq(s, Min(kept), Max(kept))

NotFound == [found |-> FALSE, value |-> JNull]
Found(value) == [found |-> TRUE, value |-> value]

\* /"([^"]+)"/ : the leftmost quote that is followed by at least one other
\* character and then a quote; the capture is the text in between
QuotedMatch(input) ==
    LET opening == {i \in 1..Len(input) :
                       /\ input[i] = "\""
                       /\ i + 1 <= Len(input) /\ input[i + 1] # "\""
                       /\ \E j \in (i + 2)..Len(input) : input[j] = "\""}
    IN IF opening = {} THEN NotFound
       ELSE LET i == Min(opening)
                j == Min({k \in (i + 2)..Len(input) : input[k] = "\""})
            IN Found(JString(Trim(SubSeq(input, i + 1, j - 1))))

CityPrefixes == { <<"i", "n">>, <<"f", "o", "r">>, <<"a", "t">> }
CityTerminators == {"?", ",", "."}

\* /(?:in|for|at)\s+([A-Za-z\s]+?)(?:\?|$|,|\.)/i matched with the prefix
\* at position i: the whitespace after the prefix is taken greedily, the
\* capture is the rest of the run of letters and whitespace, which must end
\* at a terminator or at the end of the input; when the run is whitespace
\* only, the capture is its last character.
CityMatchAt(input, i) ==
    LET lower == ToLowerCase(input)
        prefixes == {w \in CityPrefixes : StartsWithAt(lower, i, w)}
    IN IF prefixes = {} THEN NotFound
       ELSE LET p == i + Len(CHOOSE w \in prefixes : TRUE)
                spaceEnd == RunEnd(input, p, Whitespace)
                runEnd == RunEnd(input, p, Letters \cup Whitespace)
                terminated == \/ runEnd = Len(input) + 1
                              \/ input[runEnd] \in CityTerminators
            IN IF spaceEnd = p \/ ~terminated THEN NotFound
               ELSE IF spaceEnd < runEnd
               THEN Found(JString(Trim(SubSeq(input, spaceEnd, runEnd - 1))))
               ELSE IF runEnd - p >= 2
               THEN Found(JString(Trim(SubSeq(input, runEnd - 1, runEnd - 1))))
               ELSE NotFound

CityMatch(input) ==
    LET starts == {i \in 1..Len(input) : CityMatchAt(input, i).found} IN
    IF starts = {} THEN NotFound ELSE CityMatchAt(input, Min(starts))

OperationWords ==
    << <<"a", "d", "d">>,
       <<"s", "u", "b", "t", "r", "a", "c", "t">>,
       <<"m", "u", "l", "t", "i", "p", "l", "y">>,
       <<"d", "i", "v", "i", "d", "e">>,
       <<"p", "o", "w", "e", "r">>,
       <<"s", "q", "r", "t">> >>

\* OperationMatch, were it to read a plus sign as "add"
OperationMatchSymbols(input) ==
    IF \E w \in Range(OperationWords) : Includes(ToLowerCase(input), w)
    THEN Found(JString(CHOOSE w \in Range(OperationWords) :
                           Includes(ToLowerCase(input), w)))
    ELSE IF Includes(input, <<"+">>) THEN Found(JString(<<"a", "d", "d">>))
    ELSE NotFound

\* /(add|subtract|multiply|divide|power|sqrt)/i : the leftmost occurrence,
\* lower-cased
OperationMatch(input) ==
    LET lower == ToLowerCase(input)
        at(i) == {k \in 1..Len(OperationWords) :
                     StartsWithAt(lower, i, OperationWords[k])}
        starts == {i \in 1..Len(input) : at(i) # {}}
    IN IF starts = {} THEN NotFound
       ELSE Found(JString(OperationWords[Min(at(Min(starts)))]))

\* input.match(/(\d+(?:\.\d+)?)/g).map(parseFloat): the numbers of the
\* text from position i on, left to right
RECURSIVE NumberMatches(_, _)
NumberMatches(input, i) ==
    IF i > Len(input) THEN <<>>
    ELSE IF input[i] \notin Digits THEN NumberMatches(input, i + 1)
    ELSE LET intEnd == RunEnd(input, i, Digits)
             hasFrac == /\ intEnd + 1 <= Len(input)
                        /\ input[intEnd] = "."
                        /\ input[intEnd + 1] \in Digits
             end == IF hasFrac THEN RunEnd(input, intEnd + 1, Digits)
                    ELSE intEnd
             frac == IF hasFrac THEN SubSeq(input, intEnd + 1, end - 1)
                     ELSE <<>>
         IN <<JNumber(FALSE, ToNat(SubSeq(input, i, intEnd - 1)),
                      StripTrailingZeros(frac))>>
            \o NumberMatches(input, end)

EmailLocalChars == Letters \cup Digits \cup {".", "_", "%", "+", "-"}
EmailDomainChars == Letters \cup Digits \cup {".", "-"}

\* /([a-zA-Z0-9._%+-]+@[a-zA-Z0-9.-]+\.[a-zA-Z]{2,})/ matched from
\* position i: the local part runs up to an @, the domain is cut at the
\* last dot of its run that two letters follow
EmailMatchAt(input, i) ==
    LET at == RunEnd(input, i, EmailLocalChars)
        domainEnd == RunEnd(input, at + 1, EmailDomainChars)
        dots == {d \in (at + 2)..(domainEnd - 1) :
                    /\ input[d] = "."
                    /\ d + 2 <= Len(input)
                    /\ input[d + 1] \in Letters /\ input[d + 2] \in Letters}
    IN IF at = i \/ at > Len(input) \/ input[at] # "@" \/ dots = {}
       THEN NotFound
       ELSE Found(JString(SubSeq(input, i,
                                 RunEnd(input, Max(dots) + 1, Letters) - 1)))

EmailMatch(input) ==
    LET starts == {i \in 1..Len(input) : EmailMatchAt(input, i).found} IN
    IF starts = {} THEN NotFound ELSE EmailMatchAt(input, Min(starts))

ExtractorNames == {"city", "operation", "a", "b", "text", "email"}

\* ExtractParameterFromString, were every name outside the switch looked
\* for as quoted text
ExtractParameterFromStringAnyName(input, paramName) ==
    CASE paramName = "city" ->
            IF CityMatch(input).found THEN CityMatch(input)
            ELSE QuotedMatch(input)
      [] paramName = "operation" -> OperationMatch(input)
      [] paramName = "a" ->
            IF Len(NumberMatches(input, 1)) > 0
            THEN Found(NumberMatches(input, 1)[1]) ELSE NotFound
      [] paramName = "b" ->
            IF Len(NumberMatches(input, 1)) > 1
            THEN Found(NumberMatches(input, 1)[2]) ELSE NotFound
      [] paramName = "email" -> EmailMatch(input)
      [] OTHER -> QuotedMatch(input)

\* extractParameterFromString: a name outside the switch falls through to
\* `return null`.
ExtractParameterFromString(input, paramName) ==
    CASE paramName = "city" ->
            IF CityMatch(input).found THEN CityMatch(input)
            ELSE QuotedMatch(input)
      [] paramName = "operation" -> OperationMatch(input)
      [] paramName = "a" ->
            IF Len(NumberMatches(input, 1)) > 0
            THEN Found(NumberMatches(input, 1)[1]) ELSE NotFound
      [] paramName = "b" ->
            IF Len(NumberMatches(input, 1)) > 1
            THEN Found(NumberMatches(input, 1)[2]) ELSE NotFound
      [] paramName = "text" -> QuotedMatch(input)
      [] paramName = "email" -> EmailMatch(input)
      [] OTHER -> NotFound

(***************************************************************************)
(* parseInput.                                                             *)
(***************************************************************************)
\* the characters of the property names the model uses
PropertyKey ==
    [ p |-> <<"p">>, q |-> <<"q">>, a |-> <<"a">>, b |-> <<"b">>,
      city |-> <<"c", "i", "t", "y">>,
      operation |-> <<"o", "p", "e", "r", "a", "t", "i", "o", "n">>,
      text |-> <<"t", "e", "x", "t">>,
      email |-> <<"e", "m", "a", "i", "l">>,
      input |-> <<"i", "n", "p", "u", "t">> ]

\* Property, were it to take the first member whatever its key
PropertyFirstMember(value, name) ==
    IF value.t = "object" /\ value.members # <<>>
    THEN [defined |-> TRUE, value |-> value.members[1].val]
    ELSE [defined |-> FALSE, value |-> JNull]

\* value[name] for a name that is no inherited property (length, an index,
\* toString): defined = FALSE stands for undefined
Property(value, name) ==
    LET at == IF value.t = "object"
              THEN {k \in 1..Len(value.members) :
                       value.members[k].key = PropertyKey[name]}
              ELSE {}
    IN IF at = {} THEN [defined |-> FALSE, value |-> JNull]
       ELSE [defined |-> TRUE,
             value |-> value.members[CHOOSE k \in at : TRUE].val]

\* Object.values
ObjectValues(value) ==
    CASE value.t = "object" ->
            [k \in 1..Len(value.members) |-> value.members[k].val]
      [] value.t = "array" -> value.items
      [] value.t = "string" ->
            [k \in 1..Len(value.str) |-> JString(<<value.str[k]>>)]
      [] OTHER -> <<>>

\* the operand test of ||
Truthy(value) ==
    CASE value.t = "null" -> FALSE
      [] value.t = "boolean" -> value.b
      [] value.t = "number" -> value.int # 0 \/ value.frac # <<>>
      [] value.t = "string" -> value.str # <<>>
      [] OTHER -> TRUE

\* what parseInput hands to the tool method, or the error it throws
Threw(paramName) ==
    [threw |-> TRUE, missing |-> paramName, kind |-> "error",
     args |-> <<>>, value |-> JNull]
Arguments(args) ==
    [threw |-> FALSE, missing |-> "", kind |-> "params", args |-> args,
     value |-> JNull]
Scalar(kind, value) ==
    [threw |-> FALSE, missing |-> "", kind |-> kind, args |-> <<>>,
     value |-> value]

\* the parameters a loop has bound, in declaration order: `binding` maps the
\* positions of the bound parameters to their values
Bindings(params, binding) ==
    [k \in 1..Cardinality(DOMAIN binding) |->
        LET i == CHOOSE j \in DOMAIN binding :
                    Cardinality({h \in DOMAIN binding : h < j}) = k - 1
        IN [name |-> params[i].name, val |-> binding[i]]]

\* ParseInputCatch, were it to pass over a required parameter it did not
\* find
ParseInputCatchLenient(input, tool) ==
    LET params == tool.parameters
        extracted(i) == ExtractParameterFromString(input, params[i].name)
        binding == [i \in {j \in 1..Len(params) : extracted(j).found} |->
                       extracted(i).value]
    IN IF DOMAIN binding # {} THEN Arguments(Bindings(params, binding))
       ELSE Scalar("raw", JString(input))

\* The catch block of parseInput (JSON.parse threw, or the try block did):
\* every declared parameter is looked for in the text, in declaration
\* order; the first required one that is not found throws; with nothing
\* extracted the raw text is the argument.
ParseInputCatch(input, tool) ==
    LET params == tool.parameters
        extracted(i) == ExtractParameterFromString(input, params[i].name)
        missing == {i \in 1..Len(params) :
                       ~extracted(i).found /\ params[i].required}
        binding == [i \in {j \in 1..Len(params) : extracted(j).found} |->
                       extracted(i).value]
    IN IF missing # {} THEN Threw(params[Min(missing)].name)
       ELSE IF DOMAIN binding # {} THEN Arguments(Bindings(params, binding))
       ELSE Scalar("raw", JString(input))

\* jsonInput.input || Object.values(jsonInput).find(string) || input
FallbackInput(jsonInput, input) ==
    LET values == ObjectValues(jsonInput)
        strings == {k \in 1..Len(values) : values[k].t = "string"}
    IN IF Truthy(Property(jsonInput, "input").value)
       THEN Property(jsonInput, "input").value
       ELSE IF strings # {} /\ Truthy(values[Min(strings)])
       THEN values[Min(strings)]
       ELSE JString(input)

\* The try block of parseInput once JSON.parse has answered `json`:
\* field[i] is the payload's field of the name of the i-th parameter and
\* extracted[i] what the text yields for it.  A parameter takes the field;
\* a required one the payload lacks is looked for in the text.  An error of
\* the try block (a null payload has no properties, a required parameter
\* was not found) is caught by the catch block, as the SyntaxError of
\* JSON.parse is.
ParseInputTry(input, tool, json, field, extracted) ==
    LET params == tool.parameters
        missing == {i \in 1..Len(params) :
                       /\ ~field[i].defined
                       /\ params[i].required /\ ~extracted[i].found}
        bound == {i \in 1..Len(params) :
                     field[i].defined
                        \/ (params[i].required /\ extracted[i].found)}
    IN IF ~json.ok \/ json.val.t = "null" \/ missing # {}
       THEN ParseInputCatch(input, tool)
       ELSE IF bound # {}
       THEN Arguments(Bindings(params,
                [i \in bound |-> IF field[i].defined THEN field[i].value
                                 ELSE extracted[i].value]))
       ELSE Scalar("fallback", FallbackInput(json.val, input))

\* parseInput
ParseInput(input, tool) ==
    ParseInputTry(input, tool, JSONParse(input),
        [i \in 1..Len(tool.parameters) |->
            Property(JSONParse(input).val, tool.parameters[i].name)],
        [i \in 1..Len(tool.parameters) |->
            ExtractParameterFromString(input, tool.parameters[i].name)])

(***************************************************************************)
(* JSON.stringify of a value, the text of a structured payload.            *)
(***************************************************************************)
RECURSIVE NatToDigits(_)
NatToDigits(n) ==
    IF n < 10 THEN <<DigitChars[n + 1]>>
    ELSE NatToDigits(n \div 10) \o <<DigitChars[(n % 10) + 1]>>

\* the texts of a sequence joined by commas
RECURSIVE Join(_)
Join(texts) ==
    IF texts = <<>> THEN <<>>
    ELSE IF Len(texts) = 1 THEN texts[1]
    ELSE texts[1] \o <<",">> \o Join(Tail(texts))

RECURSIVE JSONStringify(_)
JSONStringify(value) ==
    CASE value.t = "null" -> <<"n", "u", "l", "l">>
      [] value.t = "boolean" ->
            IF value.b THEN <<"t", "r", "u", "e">>
            ELSE <<"f", "a", "l", "s", "e">>
      [] value.t = "number" ->
            (IF value.neg THEN <<"-">> ELSE <<>>) \o NatToDigits(value.int)
               \o (IF value.frac = <<>> THEN <<>> ELSE <<".">> \o value.frac)
      [] value.t = "string" -> <<"\"">> \o value.str \o <<"\"">>
      [] value.t = "array" ->
            <<"[">> \o Join([k \in 1..Len(value.items) |->
                               JSONStringify(value.items[k])]) \o <<"]">>
      [] value.t = "object" ->
            <<"{">> \o Join([k \in 1..Len(value.members) |->
                               <<"\"">> \o value.members[k].key
                                  \o <<"\"", ":">>
                                  \o JSONStringify(value.members[k].val)])
               \o <<"}">>

\* What the tool's method does with its argument: it returns a value or
\* throws.
\* `what` is the value returned or thrown: a value JSON.stringify and
\* String accept, an object that refers to itself, an Error, or null.
MethodOutcomes ==
    { [threw |-> FALSE, what |-> "value", text |-> "r1"],
      [threw |-> FALSE, what |-> "value", text |-> "r2"],
      [threw |-> FALSE, what |-> "circular", text |-> "[object Object]"],
      [threw |-> TRUE, what |-> "Error", text |-> "boom"],
      [threw |-> TRUE, what |-> "null", text |-> ""] }

\* The func of the DynamicTool built by createToolsFromMetadata; ok = FALSE
\* stands for the text "Error: <message>".  The catch block reads
\* error.message: of a thrown null that read is a TypeError, which leaves
\* func.  The debug line after the call evaluates JSON.stringify(result)
\* inside the try block: its TypeError on a circular result is caught.
ToolFunc(tool, input, method) ==
    LET parsedInput == ParseInput(input, tool) IN
    IF parsedInput.threw
    THEN [threw |-> FALSE, ok |-> FALSE,
          text |-> "Required parameter not found: " \o parsedInput.missing]
    ELSE IF method.threw /\ method.what = "null"
    THEN [threw |-> TRUE, ok |-> FALSE, text |-> "TypeError"]
    ELSE IF method.threw
    THEN [threw |-> FALSE, ok |-> FALSE, text |-> method.text]
    ELSE IF method.what = "circular"
    THEN [threw |-> FALSE, ok |-> FALSE,
          text |-> "Converting circular structure to JSON"]
    ELSE [threw |-> FALSE, ok |-> TRUE, text |-> method.text]

\* A call of func under observation: the tool, the input text, the payload
\* the text was made from (if any), then what parseInput returned, what the
\* method did and what func answered.
AdapterCall(tool, input, payload) ==
    [pc |-> "called", tool |-> tool, input |-> input, payload |-> payload,
     parsed |-> <<>>, method |-> <<>>, answer |-> <<>>]

NoAdapterCall ==
    [AdapterCall(ToolMetadata(<<>>, <<>>, NoParameters), <<>>, <<>>)
        EXCEPT !.pc = "none"]

\* func up to its await: parseInput runs; when it throws, the catch block
\* answers with the error text; otherwise the tool method is called.
ToolFuncParse ==
    /\ adapter.pc = "called"
    /\ LET parsed == ParseInput(adapter.input, adapter.tool) IN
       adapter' =
          [adapter EXCEPT
             !.parsed = <<parsed>>,
             !.pc = IF parsed.threw THEN "done" ELSE "awaiting",
             !.answer = IF parsed.threw
                        THEN <<ToolFunc(adapter.tool, adapter.input,
                                        CHOOSE m \in MethodOutcomes : TRUE)>>
                        ELSE <<>>]
    /\ UNCHANGED <<validation, authentication, repoVars, busVars, observed, llmVars,
                 rlVars, regVars, reqVars>>

\* func after its await: the method has returned or thrown.
ToolFuncSettle ==
    /\ adapter.pc = "awaiting"
    /\ \E method \in MethodOutcomes :
         adapter' =
            [adapter EXCEPT
               !.method = <<method>>,
               !.pc = "done",
               !.answer = <<ToolFunc(adapter.tool, adapter.input, method)>>]
    /\ UNCHANGED <<validation, authentication, repoVars, busVars, observed, llmVars,
                 rlVars, regVars, reqVars>>

(***************************************************************************)
(* SecurityMiddleware: validateInput.                                      *)
(***************************************************************************)
\* the characters U+0000 and U+007F, written by name: two of the control
\* characters sanitizeInput removes
ControlChars == {"NUL", "DEL"}

\* .replace(/\s+/g, ' '): every run of whitespace becomes one space
RECURSIVE CollapseWhitespace(_)
CollapseWhitespace(s) ==
    IF s = <<>> THEN <<>>
    ELSE IF s[1] \in Whitespace
    THEN <<" ">> \o CollapseWhitespace(
                       SubSeq(s, RunEnd(s, 1, Whitespace), Len(s)))
    ELSE <<s[1]>> \o CollapseWhitespace(Tail(s))

\* sanitizeInput: control characters removed, whitespace normalised, trimmed
SanitizeInput(input) ==
    Trim(CollapseWhitespace(SelectSeq(input, LAMBDA c : c \notin ControlChars)))

WordChars == Letters \cup Digits \cup {"_"}

\* /\bword\b/i at position i of the text
WordAt(s, i, word) ==
    /\ StartsWithAt(ToLowerCase(s), i, word)
    /\ i = 1 \/ s[i - 1] \notin WordChars
    /\ i + Len(word) > Len(s) \/ s[i + Len(word)] \notin WordChars

ContainsWord(s, words) ==
    \E w \in words : \E i \in 1..Len(s) : WordAt(s, i, w)

SqlWords ==
    { <<"u", "n", "i", "o", "n">>, <<"s", "e", "l", "e", "c", "t">>,
      <<"i", "n", "s", "e", "r", "t">>, <<"u", "p", "d", "a", "t", "e">>,
      <<"d", "e", "l", "e", "t", "e">>, <<"d", "r", "o", "p">>,
      <<"c", "r", "e", "a", "t", "e">>, <<"a", "l", "t", "e", "r">> }

CommandWords ==
    { <<"c", "m", "d">>,
      <<"p", "o", "w", "e", "r", "s", "h", "e", "l", "l">>,
      <<"b", "a", "s", "h">>, <<"s", "h">>, <<"e", "x", "e", "c">>,
      <<"s", "y", "s", "t", "e", "m">>, <<"e", "v", "a", "l">> }

SuspiciousExtensions ==
    { <<"p", "h", "p">>, <<"a", "s", "p">>, <<"j", "s", "p">>,
      <<"e", "x", "e">>, <<"b", "a", "t">>, <<"c", "m", "d">>,
      <<"p", "s", "1">> }

ScriptOpen == <<"<", "s", "c", "r", "i", "p", "t">>
ScriptClose == <<"<", "/", "s", "c", "r", "i", "p", "t", ">">>

\* /<script\b[^<]*(?:(?!<\/script>)<[^<]*)*<\/script>/gi : an opening
\* <script, not followed by a word character, and a later </script>
ContainsScript(s) ==
    \E i \in 1..Len(s) :
        /\ StartsWithAt(ToLowerCase(s), i, ScriptOpen)
        /\ i + 7 <= Len(s) /\ s[i + 7] \notin WordChars
        /\ \E j \in (i + 7)..Len(s) : StartsWithAt(ToLowerCase(s), j, ScriptClose)

\* containsMaliciousContent: some pattern of the list matches
ContainsMaliciousContent(input) ==
    \/ ContainsWord(input, SqlWords)
    \/ ContainsScript(input)
    \/ ContainsWord(input, CommandWords)
    \/ Includes(input, <<".", ".", "/">>)
    \/ \E ext \in SuspiciousExtensions :
          /\ Len(input) >= Len(ext) + 1
          /\ SubSeq(ToLowerCase(input), Len(input) - Len(ext), Len(input))
                = <<".">> \o ext

UrlSchemes ==
    { <<"h", "t", "t", "p", ":", "/", "/">>,
      <<"h", "t", "t", "p", "s", ":", "/", "/">> }

\* /https?:\/\/[^\s]+/i at position i: the length of the scheme, or 0
UrlSchemeAt(s, i) ==
    LET schemes == {u \in UrlSchemes :
                       /\ StartsWithAt(ToLowerCase(s), i, u)
                       /\ i + Len(u) <= Len(s)
                       /\ s[i + Len(u)] \notin Whitespace}
    IN IF schemes = {} THEN 0 ELSE Len(CHOOSE u \in schemes : TRUE)

\* containsExternalUrls
ContainsExternalUrls(input) ==
    \E i \in 1..Len(input) : UrlSchemeAt(input, i) > 0

\* extractUrls: the matches from position i on, each running up to the next
\* whitespace
RECURSIVE ExtractUrls(_, _)
ExtractUrls(input, i) ==
    IF i > Len(input) THEN <<>>
    ELSE IF UrlSchemeAt(input, i) = 0 THEN ExtractUrls(input, i + 1)
    ELSE LET end == Min({j \in i..(Len(input) + 1) :
                            j > Len(input) \/ input[j] \in Whitespace})
         IN <<SubSeq(input, i, end - 1)>> \o ExtractUrls(input, end)

\* new URL(url).hostname, for the URLs of the model: a host of letters and
\* dots that starts with a letter, then the end or a path
Hostname(url) ==
    LET start == UrlSchemeAt(url, 1) + 1
        end == RunEnd(url, start, Letters \cup {"."})
    IN CASE /\ url[start] \in Letters
            /\ end > Len(url) \/ url[end] = "/" ->
               ToLowerCase(SubSeq(url, start, end - 1))

EndsWith(s, suffix) ==
    Len(s) >= Len(suffix)
        /\ SubSeq(s, Len(s) - Len(suffix) + 1, Len(s)) = suffix

\* IsAllowedDomain, were the entry matched as a suffix of the hostname
IsAllowedDomainSuffix(cfg, url) ==
    \E allowed \in cfg.allowedDomains[1] : EndsWith(Hostname(url), allowed)

\* isAllowedDomain, with an allowlist configured
IsAllowedDomain(cfg, url) ==
    \E allowed \in cfg.allowedDomains[1] :
        \/ Hostname(url) = allowed
        \/ EndsWith(Hostname(url), <<".">> \o allowed)

\* the input of validateInput: a string, or a value that is none
StringInput(text) == [string |-> TRUE, text |-> text]
NonStringInput == [string |-> FALSE, text |-> <<>>]

LengthError == "Input length exceeds maximum allowed length"
MaliciousError == "Input contains potentially malicious content"
DomainError == "External URLs not allowed"
EmptyError == "Input must be a non-empty string"

\* ValidationResult, were the sanitized text returned with the errors
ValidationResultKeepsSanitized(errors, disallowedUrls, sanitizedInput) ==
    [isValid |-> errors = <<>>, errors |-> errors,
     disallowedUrls |-> disallowedUrls,
     sanitizedInput |-> <<sanitizedInput>>]

\* The object validateInput returns after the checks.  errors = <<>> stands
\* for `errors: undefined` and sanitizedInput = <<>> for
\* `sanitizedInput: undefined`.  The text of the allowlist error ends with
\* the disallowed URLs joined by ', ': they are kept in disallowedUrls.
ValidationResult(errors, disallowedUrls, sanitizedInput) ==
    [isValid |-> errors = <<>>, errors |-> errors,
     disallowedUrls |-> disallowedUrls,
     sanitizedInput |-> IF errors = <<>> THEN <<sanitizedInput>> ELSE <<>>]

\* the early return of validateInput
EmptyResult ==
    [isValid |-> FALSE, errors |-> <<EmptyError>>, disallowedUrls |-> <<>>,
     sanitizedInput |-> <<>>]

\* urls.filter((url) => !this.isAllowedDomain(url)), when the allowlist
\* check runs
DisallowedUrls(cfg, sanitized) ==
    IF cfg.allowedDomains # <<>> /\ ContainsExternalUrls(sanitized)
    THEN SelectSeq(ExtractUrls(sanitized, 1),
                   LAMBDA url : ~IsAllowedDomain(cfg, url))
    ELSE <<>>

\* ValidateInput, were it to return at the first error
ValidateInputShortCircuit(cfg, input) ==
    LET text == input.text
        sanitized == IF cfg.sanitizeInput THEN SanitizeInput(text) ELSE text
    IN IF ~input.string \/ text = <<>> THEN EmptyResult
       ELSE IF ExceedsMaxLength(cfg, text)
       THEN ValidationResult(<<LengthError>>, <<>>, sanitized)
       ELSE IF ContainsMaliciousContent(sanitized)
       THEN ValidationResult(<<MaliciousError>>, <<>>, sanitized)
       ELSE IF DisallowedUrls(cfg, sanitized) # <<>>
       THEN ValidationResult(<<DomainError>>,
                             DisallowedUrls(cfg, sanitized), sanitized)
       ELSE ValidationResult(<<>>, <<>>, sanitized)

\* validateInput: a value that is no string, or the empty string, is
\* answered at once; otherwise the length of the input, then the malicious
\* patterns and the allowlist on the sanitized input, each adding its error.
ValidateInput(cfg, input) ==
    LET text == input.text
        sanitized == IF cfg.sanitizeInput THEN SanitizeInput(text) ELSE text
        lengthErrors == IF ExceedsMaxLength(cfg, text) THEN <<LengthError>>
                        ELSE <<>>
        maliciousErrors == IF ContainsMaliciousContent(sanitized)
                           THEN <<MaliciousError>> ELSE <<>>
        domainErrors == IF DisallowedUrls(cfg, sanitized) # <<>>
                        THEN <<DomainError>> ELSE <<>>
    IN IF ~input.string \/ text = <<>> THEN EmptyResult
       ELSE ValidationResult(lengthErrors \o maliciousErrors \o domainErrors,
                             DisallowedUrls(cfg, sanitized), sanitized)

\* validateInput has not been called
NoValidation == [called |-> FALSE]

\* One call validateInput(input), as its caller observes it.
CallValidateInput(input) ==
    /\ ~validation.called
    /\ validation' = [called |-> TRUE, input |-> input,
                      result |-> ValidateInput(config, input)]
    /\ UNCHANGED <<adapter, authentication, repoVars, busVars, observed, llmVars,
                 rlVars, regVars, reqVars>>

(***************************************************************************)
(* SecurityMiddleware: validateAuthentication.                             *)
(***************************************************************************)
\* config.authentication absent, or enabled: false
NoAuthentication == [enabled |-> FALSE]

\* a header of the context: absent, a string, or the array of a header
\* that was sent more than once
NoHeader == [kind |-> "absent", text |-> <<>>]
StringHeader(text) == [kind |-> "string", text |-> text]
ArrayHeader == [kind |-> "array", text |-> <<>>]

\* the operand test of ! and ||
HeaderTruthy(h) == h.kind = "array" \/ (h.kind = "string" /\ h.text # <<>>)

Bearer == <<"B", "e", "a", "r", "e", "r", " ">>

\* String.prototype.replace with a string pattern and '': the first
\* occurrence is removed
ReplaceFirst(s, pattern) ==
    IF ~Includes(s, pattern) THEN s
    ELSE LET at == Min({i \in 1..Len(s) : StartsWithAt(s, i, pattern)})
         IN SubSeq(s, 1, at - 1) \o SubSeq(s, at + Len(pattern), Len(s))

Authenticated(user) == [threw |-> FALSE, authenticated |-> TRUE,
                        user |-> user, error |-> ""]
NotAuthenticated(message) == [threw |-> FALSE, authenticated |-> FALSE,
                            user |-> "", error |-> message]
\* an error thrown where an answer was due
TypeError == [threw |-> TRUE, authenticated |-> FALSE, user |-> "",
              error |-> "TypeError"]

\* validateJWT: an array has no replace method; any token is accepted
ValidateJWT(ctx) ==
    LET authorization == ctx.headers.authorization IN
    IF authorization.kind = "absent" THEN NotAuthenticated("No JWT token provided")
    ELSE IF authorization.kind = "array" THEN TypeError
    ELSE IF ReplaceFirst(authorization.text, Bearer) = <<>>
    THEN NotAuthenticated("No JWT token provided")
    ELSE Authenticated("user-123")

\* validateApiKey: the x-api-key header, or else the authorization header,
\* is looked up in config.validKeys
ValidateApiKey(ctx, validKeys) ==
    LET apiKey == IF HeaderTruthy(ctx.headers.apiKey)
                  THEN ctx.headers.apiKey
                  ELSE ctx.headers.authorization
    IN IF ~HeaderTruthy(apiKey) THEN NotAuthenticated("No API key provided")
       ELSE IF apiKey.kind # "string" \/ apiKey.text \notin validKeys
       THEN NotAuthenticated("Invalid API key")
       ELSE Authenticated("api-user")

\* validateOAuth
ValidateOAuth(ctx) == Authenticated("oauth-user")

\* ValidateAuthentication, were a disabled configuration to refuse
ValidateAuthenticationClosed(cfg, ctx) ==
    NotAuthenticated("Unsupported authentication type")

\* validateAuthentication: the scheme of the configuration answers; an
\* error it throws is caught and answered as a failure.
ValidateAuthentication(cfg, ctx) ==
    IF ~cfg.authentication.enabled THEN Authenticated("")
    ELSE LET answer ==
               CASE cfg.authentication.type = "jwt" -> ValidateJWT(ctx)
                 [] cfg.authentication.type = "api-key" ->
                      ValidateApiKey(ctx, cfg.authentication.validKeys)
                 [] cfg.authentication.type = "oauth" -> ValidateOAuth(ctx)
                 [] OTHER -> NotAuthenticated("Unsupported authentication type")
         IN IF answer.threw
            THEN NotAuthenticated("Authentication validation failed")
            ELSE answer

\* validateAuthentication has not been called
NoAuthenticationCall == [called |-> FALSE]

\* One call validateAuthentication(ctx), as its caller observes it.
CallValidateAuthentication(ctx) ==
    /\ ~authentication.called
    /\ authentication' = [called |-> TRUE, context |-> ctx,
                          result |-> ValidateAuthentication(config, ctx)]
    /\ UNCHANGED <<adapter, validation, repoVars, busVars, observed, llmVars,
                 rlVars, regVars, reqVars>>

(***************************************************************************)
(* Responses.                                                              *)
(***************************************************************************)
Sentinel == "Agent stopped due to max iterations."

Output(kind, tool, ok, text) ==
    [kind |-> kind, tool |-> tool, ok |-> ok, text |-> text]

\* the model's own answer
ModelOutput(text) == Output("model", <<>>, TRUE, text)

\* `Based on the ${tool.name} information: ${result}`
BasedOn(name, toolResult) ==
    Output("based", name, toolResult.ok, toolResult.text)

\* "I'm sorry, I couldn't process your request properly. ..."
Apology == Output("apology", <<>>, TRUE, "")

\* `I encountered an error while processing your request: ${error.message}`
ErrorOutput(message) == Output("error", <<>>, FALSE, message)

ToolNames(ts) == [i \in 1..Len(ts) |-> ts[i].name]

Metadata(name, ts, fallbackUsed, message) ==
    [agentName |-> name, tools |-> ToolNames(ts),
     availableTools |-> ToolNames(ts), fallbackUsed |-> fallbackUsed,
     error |-> message]

NoError == "none"

(***************************************************************************)
(* AgentService.executeToolsDirectly: the fallback dispatcher.             *)
(***************************************************************************)
\* isRelevant without the lower-casing of the input
IsRelevantCaseSensitive(tool, input) ==
    LET toolName == ToLowerCase(tool.name)
        toolDescription == ToLowerCase(tool.description)
    IN \/ Includes(input, toolName)
       \/ \E word \in Range(Split(toolName, "-")) : Includes(input, word)
       \/ \E word \in Range(Split(toolDescription, " ")) :
             Len(word) > 3 /\ Includes(input, word)

\* isRelevant of executeToolsDirectly
IsRelevant(tool, input) ==
    LET toolName == ToLowerCase(tool.name)
        toolDescription == ToLowerCase(tool.description)
        inputLower == ToLowerCase(input)
    IN \/ Includes(inputLower, toolName)
       \/ \E word \in Range(Split(toolName, "-")) : Includes(inputLower, word)
       \/ \E word \in Range(Split(toolDescription, " ")) :
             Len(word) > 3 /\ Includes(inputLower, word)

(***************************************************************************)
(* The request: BaseAgentProvider.execute around AgentService.executeAgent *)
(***************************************************************************)
NullContext ==
    [null |-> TRUE, input |-> <<>>, ip |-> "", userId |-> "",
     sessionId |-> "", meta |-> ""]

Context(input, sessionId, meta) ==
    [null |-> FALSE, input |-> input, ip |-> "", userId |-> "",
     sessionId |-> sessionId, meta |-> meta]

\* what callers pass to execute
CallerInputs == { <<>>, <<"a">>, <<"b", "a", "b">>, <<"b", "b", "b", "b">> }

CallerContexts ==
    {NullContext} \cup
    {Context(i, "k1", "caller") : i \in CallerInputs}

\* the error a hook throws
HookError == "hook failure"

\* what a beforeModelCall hook may do with the context it is given: return
\* it (the default implementation), return another context or nothing, or
\* throw
BeforeOutcomes(ctx) ==
    { [threw |-> FALSE, value |-> ctx],
      [threw |-> FALSE, value |-> Context(<<"A">>, ctx.sessionId, "before")],
      [threw |-> FALSE, value |-> NullContext],
      [threw |-> TRUE, value |-> Context(<<"A">>, ctx.sessionId, "before")] }

\* execute without the reset in the catch of the before hook
ProcessedContextNoReset(ctx, o) == o.value

\* execute, the context handed to executeAgent: the hook's value, or the
\* caller's context when the hook threw (`o.value` is then what the hook
\* had built and never returned)
ProcessedContext(ctx, o) == IF o.threw THEN ctx ELSE o.value

HookOutput == Output("hook", <<>>, TRUE, "rewritten")

NoOutput == Output("none", <<>>, FALSE, "")

\* what an afterModelCall hook may do with the response it is given: return
\* it (the default implementation), return another response, return a value
\* without an output, or throw
AfterOutcomes(response) ==
    { [threw |-> FALSE, value |-> response],
      [threw |-> FALSE,
       value |-> [output |-> HookOutput, metadata |-> response.metadata]],
      [threw |-> FALSE,
       value |-> [output |-> NoOutput, metadata |-> response.metadata]],
      [threw |-> TRUE,
       value |-> [output |-> HookOutput, metadata |-> response.metadata]] }

\* execute without the reset in the catch of the after hook
FinalResultNoReset(response, o) == o.value

\* execute, the response it returns: the hook's value, or the response of
\* executeAgent when the hook threw
FinalResult(response, o) == IF o.threw THEN response ELSE o.value

\* the test without the comparison with the sentinel
IsUsableNoSentinel(output) == output \notin {"", Undefined}

\* executeAgentInternal, the test that the model's output is an answer
IsUsable(output) == output \notin {"", Undefined} /\ output # Sentinel

\* an outer catch that throws an error of its own
ExecuteCatchWrapped(e) == "BaseAgentProvider execution failed"

\* execute, the outer catch: the error is logged and thrown on as it is
ExecuteCatch(e) == e

\* what agentExecutor.invoke may do: return an output or throw
ModelOutcomes ==
    { [threw |-> FALSE, output |-> "answer"],
      [threw |-> FALSE, output |-> ""],
      [threw |-> FALSE, output |-> Undefined],
      [threw |-> FALSE, output |-> Sentinel],
      [threw |-> TRUE, output |-> "model failure"] }

AIProviderConfigs ==
    { [type |-> "openai", customLLM |-> FALSE],
      [type |-> "custom", customLLM |-> FALSE] }

Idle ==
    /\ pc = "idle"
    /\ provider = ""
    /\ context = NullContext
    /\ processedContext = NullContext
    /\ deniedAtEntry = FALSE
    /\ trace = <<>>
    /\ modelInput = <<>>
    /\ modelResult = <<>>
    /\ agentTools = <<>>
    /\ fbIdx = 0
    /\ invoked = <<>>
    /\ result = <<>>
    /\ coreError = NoError
    /\ finalResult = <<>>
    /\ error = NoError
    /\ events = <<>>

\* execute throws `e` to its caller
Throw(e) ==
    /\ pc' = "done"
    /\ error' = e

\* executeAgent throws `e`; the outer catch of execute takes it
CoreThrow(e) ==
    /\ coreError' = e
    /\ Throw(ExecuteCatch(e))

\* BaseAgentProvider.execute is entered with the caller's context.
Execute(cls, ctx) ==
    /\ pc = "idle"
    /\ provider' = cls
    /\ context' = ctx
    /\ processedContext' = ctx
    /\ deniedAtEntry' =
         ~RateLimitResult(rateLimitStore, config.rateLimit, now,
                          GenerateRateLimitKey(ctx)).allowed
    /\ IF ctx.null
       THEN Throw("Context is required for agent execution")
       ELSE pc' = "beforeModelCall" /\ UNCHANGED error
    /\ UNCHANGED <<trace, modelInput, modelResult, agentTools, fbIdx, invoked,
                   result, coreError, finalResult, events, rlVars, regVars, callVars>>

\* The before hook runs; when it throws, execute goes on with the context
\* it was given.
BeforeModelCall ==
    /\ pc = "beforeModelCall"
    /\ \E o \in BeforeOutcomes(context) :
         /\ processedContext' = ProcessedContext(context, o)
         /\ trace' = Append(trace, IF o.threw THEN "beforeModelCall:threw"
                                   ELSE "beforeModelCall")
    /\ pc' = "executeAgent"
    /\ UNCHANGED <<provider, context, deniedAtEntry, modelInput, modelResult,
                   agentTools, fbIdx, invoked, result, coreError, finalResult,
                   error, events, rlVars, regVars, callVars>>

\* a core that stamps the context it is handed
ContextAfterCoreStamped(ctx) == [ctx EXCEPT !.meta = "core"]

\* executeAgent, executeAgentInternal and executeToolsDirectly, the context
\* object they were handed once they are through: they read its input,
\* sessionId and history (the history array goes to the executor as it is)
\* and assign to none of its fields.  The object is the caller's own
\* whenever the before hook is absent, threw or returned its argument.
ContextAfterCore(ctx) == ctx

\* AgentToolsOf, were every registered tool handed to the agent
AgentToolsOfAll(allTools, instance) == allTools

\* executeAgentInternal, the filter over getAllTools(): the tools whose
\* instance is the agent's instance, in the order of the table
AgentToolsOf(allTools, instance) ==
    SelectSeq(allTools, LAMBDA t : t.instance = instance)

\* AgentService.executeAgent up to the first suspension of
\* executeAgentInternal: the context is checked, the agent is looked up, its
\* tools are gathered and their adapters are built.  The three checks throw
\* before the try block, so no event is emitted for them.
ExecuteAgent ==
    /\ pc = "executeAgent"
    /\ LET name == AgentNameOf(provider) IN
       IF processedContext.null
       THEN /\ CoreThrow("Context is required for agent execution")
            /\ trace' = Append(trace, "executeAgent")
            /\ UNCHANGED agentTools
       ELSE IF processedContext.input = <<>>
       THEN /\ CoreThrow("Valid input string is required for agent execution")
            /\ trace' = Append(trace, "executeAgent")
            /\ UNCHANGED agentTools
       ELSE IF name \notin DOMAIN agents
       THEN /\ CoreThrow("Agent not found")
            /\ trace' = Append(trace, "executeAgent")
            /\ UNCHANGED agentTools
       ELSE /\ agentTools' = AgentToolsOf(tools, agents[name].instance)
            /\ trace' = trace \o <<"executeAgent", "resolveTools">>
            /\ pc' = "createLLM"
            /\ UNCHANGED <<error, coreError>>
    /\ processedContext' = ContextAfterCore(processedContext)
    /\ context' = IF processedContext = context
                  THEN ContextAfterCore(context)
                  ELSE context
    /\ UNCHANGED <<provider, deniedAtEntry,
                   modelInput, modelResult, fbIdx, invoked, result,
                   finalResult, events, rlVars, regVars, callVars>>

\* AgentFactory.createLLM: the custom provider without an LLM instance
\* throws.  The call is outside the try block of executeAgentInternal: the
\* error reaches the catch of executeAgent, which emits agent-errored and
\* rethrows, and execute rethrows it to its caller.
CreateLLM ==
    /\ pc = "createLLM"
    /\ trace' = Append(trace, "createLLM")
    /\ IF aiProvider.type = "custom" /\ ~aiProvider.customLLM
       THEN /\ CoreThrow(ErrorAfterEmit("Custom LLM instance is required"))
            /\ events' = Append(events, "agent-errored")
       ELSE /\ pc' = "invoke"
            /\ UNCHANGED <<error, coreError, events>>
    /\ UNCHANGED <<provider, context, processedContext, deniedAtEntry,
                   modelInput, modelResult, agentTools, fbIdx, invoked, result,
                   finalResult, rlVars, regVars, callVars>>

\* executeAgentInternal returns `response`; executeAgent emits
\* agent-executed and returns it to execute.  The emit call is inside the
\* try block: when an observer throws on it, the catch emits agent-errored
\* and executeAgent throws.
Return(response) ==
    IF EmitThrows
    THEN /\ events' = events \o <<"agent-executed", "agent-errored">>
         /\ CoreThrow(ErrorAfterEmit(ObserverError))
         /\ UNCHANGED result
    ELSE /\ result' = <<response>>
         /\ events' = Append(events, "agent-executed")
         /\ pc' = "afterModelCall"
         /\ UNCHANGED <<coreError, error>>

\* the tools of a request, were they looked up in the repository again
\* whenever they are used
ToolsInFlightLive(gathered, allTools) ==
    SelectSeq(gathered, LAMBDA t : HasTool(allTools, t.name))

\* The tools that executeAgentInternal works with after its first
\* suspension: the Map agentTools and the adapters built from it are locals
\* of the call, filled before createLLM is awaited; the repository's table
\* is not read again.
ToolsInFlight(gathered, allTools) == gathered

\* agentExecutor.invoke and the branch on its outcome: a usable output is
\* returned, an empty or sentinel output starts the fallback, an error is
\* turned into an apology.
Invoke ==
    /\ pc = "invoke"
    /\ modelInput' = <<processedContext.input>>
    /\ trace' = Append(trace, "invoke")
    /\ \E o \in ModelOutcomes :
         LET name == AgentNameOf(provider) IN
         /\ modelResult' = <<o>>
         /\ IF o.threw
            THEN /\ Return([output |-> ErrorOutput(o.output),
                            metadata |-> Metadata(name, ToolsInFlight(agentTools, tools), FALSE,
                                                  o.output)])
                 /\ UNCHANGED fbIdx
            ELSE IF IsUsable(o.output)
            THEN /\ Return([output |-> ModelOutput(o.output),
                            metadata |-> Metadata(name, ToolsInFlight(agentTools, tools), FALSE,
                                                  "")])
                 /\ UNCHANGED fbIdx
            ELSE /\ pc' = "fallback"
                 /\ fbIdx' = 1
                 /\ UNCHANGED <<result, events, coreError, error>>
    /\ UNCHANGED <<provider, context, processedContext, deniedAtEntry,
                   agentTools, invoked, finalResult, rlVars,
                   regVars, callVars>>

\* The response of the fallback branch of executeAgentInternal.
FallbackResponse(output) ==
    [output |-> output,
     metadata |-> Metadata(AgentNameOf(provider),
                          ToolsInFlight(agentTools, tools), TRUE, "")]

\* One turn of the loop of executeToolsDirectly: a tool that is not relevant
\* is passed over; the adapter of a relevant one is called and its text is
\* returned in the template; a call that throws is logged and the loop goes
\* on; after the last tool the apology is returned.
ExecuteToolsDirectly ==
    /\ pc = "fallback"
    /\ LET input == processedContext.input IN
       IF fbIdx > Len(ToolsInFlight(agentTools, tools))
       THEN /\ Return(FallbackResponse(Apology))
            /\ trace' = Append(trace, "fallback")
            /\ UNCHANGED <<fbIdx, invoked>>
       ELSE IF ~IsRelevant(ToolsInFlight(agentTools, tools)[fbIdx], input)
       THEN /\ fbIdx' = fbIdx + 1
            /\ UNCHANGED <<pc, invoked, result, events, trace, coreError,
                           error>>
       ELSE \E method \in MethodOutcomes :
              \E toolResult \in {ToolFunc(ToolsInFlight(agentTools, tools)[fbIdx], input, method)} :
              LET tool == ToolsInFlight(agentTools, tools)[fbIdx] IN
              /\ invoked' = Append(invoked,
                                   [index |-> fbIdx, name |-> tool.name,
                                    ok |-> toolResult.ok,
                                    text |-> toolResult.text])
              /\ IF toolResult.threw
                 THEN /\ fbIdx' = fbIdx + 1
                      /\ UNCHANGED <<pc, result, events, trace, coreError,
                                     error>>
                 ELSE /\ Return(FallbackResponse(BasedOn(tool.name,
                                                         toolResult)))
                      /\ trace' = Append(trace, "fallback")
                      /\ UNCHANGED fbIdx
    /\ UNCHANGED <<provider, context, processedContext, deniedAtEntry,
                   modelInput, modelResult, agentTools, finalResult,
                   rlVars, regVars, callVars>>

\* The after hook runs on the caller's context and the response of
\* executeAgent; when it throws, execute returns that response.  A hook
\* value without an output makes the final log statement of execute throw
\* a TypeError, which execute rethrows.
AfterModelCall ==
    /\ pc = "afterModelCall"
    /\ \E o \in AfterOutcomes(result[1]) :
         /\ trace' = Append(trace, IF o.threw THEN "afterModelCall:threw"
                                   ELSE "afterModelCall")
         /\ IF FinalResult(result[1], o).output = NoOutput
            THEN Throw(ExecuteCatch("TypeError")) /\ UNCHANGED finalResult
            ELSE /\ finalResult' = <<FinalResult(result[1], o)>>
                 /\ pc' = "done"
                 /\ UNCHANGED error
    /\ UNCHANGED <<provider, context, processedContext, deniedAtEntry,
                   modelInput, modelResult, agentTools, fbIdx, invoked, result,
                   coreError, events, rlVars, regVars, callVars>>

(***************************************************************************)
(* ComprehensiveAIAgent: the hooks of the example agent.                   *)
(***************************************************************************)
\* 'I apologize, but I cannot process that request due to inappropriate
\* content.' and 'I encountered an error while processing your request.
\* Please try again.', each as a text of one symbol
InappropriateReply == <<"I apologize, but I cannot process that request">>
ErrorReply == <<"I encountered an error while processing your request">>

InappropriateWords ==
    { <<"s", "p", "a", "m">>, <<"h", "a", "c", "k">>,
      <<"b", "l", "o", "c", "k", "e", "d">>,
      <<"e", "x", "p", "l", "o", "i", "t">>,
      <<"i", "n", "a", "p", "p", "r", "o", "p", "r", "i", "a", "t", "e">> }

\* ComprehensiveAIAgent.sanitizeInput: trimmed, runs of whitespace made one
\* space, angle brackets removed (the texts of the runs are far below the
\* 2000 characters it cuts at)
AgentSanitizeInput(input) ==
    SelectSeq(CollapseWhitespace(Trim(input)), LAMBDA c : c \notin {"<", ">"})

\* context.metadata?.validationFailed
ValidationFailed(ctx) ==
    ctx.meta \in {"validationFailed:inappropriate_content",
                  "validationFailed:error"}

\* ComprehensiveAIAgent.beforeModelCall: the context it returns
ComprehensiveBefore(ctx) ==
    IF Trim(ctx.input) = <<>>
    THEN Context(ErrorReply, ctx.sessionId, "validationFailed:error")
    ELSE IF \E word \in InappropriateWords :
               Includes(ToLowerCase(AgentSanitizeInput(ctx.input)), word)
    THEN Context(InappropriateReply, ctx.sessionId,
                 "validationFailed:inappropriate_content")
    ELSE Context(AgentSanitizeInput(ctx.input), ctx.sessionId, "preprocessed")

\* an output that is a text as it stands
TextOutput(text) == Output("text", text, TRUE, "")

\* formatResponse
FormatResponse(output) == [output EXCEPT !.kind = "formatted"]

\* ComprehensiveAIAgent.afterModelCall: the response it returns for the
\* context and the response execute hands to it
ComprehensiveAfter(ctx, response) ==
    IF ValidationFailed(ctx)
    THEN [output |-> TextOutput(ctx.input),
          metadata |-> [errorHandled |-> TRUE, reason |-> ctx.meta]
                          @@ response.metadata]
    ELSE [output |-> FormatResponse(response.output),
          metadata |-> [postprocessed |-> TRUE] @@ response.metadata]

\* execute, the context it hands to the after hook: the one it was called
\* with
AfterHookContext(ctx, processed) == ctx

\* execute with the before hook of ComprehensiveAIAgent
ComprehensiveBeforeModelCall ==
    /\ pc = "beforeModelCall"
    /\ processedContext' = ComprehensiveBefore(context)
    /\ trace' = Append(trace, "beforeModelCall")
    /\ pc' = "executeAgent"
    /\ UNCHANGED <<provider, context, deniedAtEntry, modelInput, modelResult,
                   agentTools, fbIdx, invoked, result, coreError, finalResult,
                   error, events, rlVars, regVars, callVars>>

\* execute with the after hook of ComprehensiveAIAgent
ComprehensiveAfterModelCall ==
    /\ pc = "afterModelCall"
    /\ trace' = Append(trace, "afterModelCall")
    /\ finalResult' =
         <<ComprehensiveAfter(AfterHookContext(context, processedContext),
                              result[1])>>
    /\ pc' = "done"
    /\ UNCHANGED <<provider, context, processedContext, deniedAtEntry,
                   modelInput, modelResult, agentTools, fbIdx, invoked, result,
                   coreError, error, events, rlVars, regVars, callVars>>

(***************************************************************************)
(* Specifications.                                                         *)
(***************************************************************************)
SecurityConfigs ==
    [rateLimit : RateLimitConfigs \cup {NoRateLimit}, maxInputLength : {0, 3},
     sanitizeInput : {FALSE}, allowedDomains : {<<>>},
     authentication : {NoAuthentication}]

\* the keys of the contexts callers send
RequestKeys == {GenerateRateLimitKey(c) : c \in CallerContexts \ {NullContext}}

\* The module after construction.
Init ==
    /\ now = 0
    /\ config \in SecurityConfigs
    /\ rateLimitStore = EmptyMap
    /\ uncleaned = EmptyMap
    /\ rlLast = NoCall
    /\ admitted = [k \in Keys \cup RequestKeys |-> 0]
    /\ agents = EmptyMap
    /\ tools = <<>>
    /\ aiProvider \in AIProviderConfigs
    /\ agentProviders = EmptyMap
    /\ Idle
    /\ adapter = NoAdapterCall
    /\ validation = NoValidation
    /\ authentication = NoAuthenticationCall
    /\ repoLast = NoRepositoryCall
    /\ snapshot = NoSnapshot
    /\ observers = <<>>
    /\ notify = NoNotification
    /\ observed = NoKeyCall
    /\ sharedLLM = NoCustomLLM
    /\ inflight = NoRequests

\* Spec: discovery registers the agent classes, the host calls the rate
\* limiter on the keys of its contexts and sends one request through the
\* pipeline.
Next ==
    \/ \E k \in RequestKeys : RateLimit(k)
    \/ \E cls \in AgentClasses : DiscoverProvider(cls)
    \/ \E cls \in AgentClasses, ctx \in CallerContexts : Execute(cls, ctx)
    \/ BeforeModelCall
    \/ ExecuteAgent
    \/ CreateLLM
    \/ Invoke
    \/ ExecuteToolsDirectly
    \/ AfterModelCall

Spec == Init /\ [][Next]_vars

\* SpecRateLimit: the rate limiter alone, called on any key while the clock
\* advances and the periodic sweep runs.
NextRateLimit ==
    \/ \E k \in Keys : RateLimit(k)
    \/ CleanupRateLimitStore
    \/ Tick

SpecRateLimit == Init /\ [][NextRateLimit]_vars

\* SpecFallback: executeToolsDirectly on the adapters of any agent whose
\* tools have names, descriptions and parameters from bounded sets, for any
\* bounded input, from the moment the model has stopped without an answer.
NameChars == {"A", "-"}
InputChars == {"a", "A", "b"}

FallbackToolNames ==
    (Texts(NameChars, MaxNameLen) \ {<<>>})
        \cup { <<"A", "-", "b">>, <<"b", "A">> }

FallbackDescriptions == { <<>>, <<"b", "b", "b", "b", " ", "a">> }

FallbackInputs ==
    (Texts(InputChars, MaxInputLen) \ {<<>>})
        \cup { <<"b", "B", "b", "b">>, <<"x">>, <<"a", "-", "B">>,
               <<"x", "b", "A">> }

FallbackTools ==
    [name : FallbackToolNames, description : FallbackDescriptions,
     parameters : {NoParameters, RequiredQ}, instance : {"i1"}]

\* the tool tables of the registry: at most MaxTools tools, no name twice
ToolTables ==
    {t \in UNION {[1..n -> FallbackTools] : n \in 0..MaxTools} :
        \A i, j \in 1..Len(t) : i # j => t[i].name # t[j].name}

InitFallback ==
    /\ now = 0
    /\ config = [rateLimit |-> NoRateLimit, maxInputLength |-> 0,
                 sanitizeInput |-> FALSE, allowedDomains |-> <<>>,
                 authentication |-> NoAuthentication]
    /\ rateLimitStore = EmptyMap
    /\ uncleaned = EmptyMap
    /\ rlLast = NoCall
    /\ admitted = [k \in Keys \cup RequestKeys |-> 0]
    /\ agents = RegisterAgent(EmptyMap, "AlphaAgent")
    /\ tools \in ToolTables
    /\ aiProvider = [type |-> "openai", customLLM |-> FALSE]
    /\ agentProviders = EmptyMap
    /\ pc = "fallback"
    /\ provider = "AlphaAgent"
    /\ context \in {Context(i, "k1", "caller") : i \in FallbackInputs}
    /\ processedContext = context
    /\ deniedAtEntry = FALSE
    /\ trace = <<"beforeModelCall", "executeAgent", "resolveTools",
                 "createLLM", "invoke">>
    /\ modelInput = <<context.input>>
    /\ modelResult = <<[threw |-> FALSE, output |-> Sentinel]>>
    /\ agentTools = tools
    /\ fbIdx = 1
    /\ invoked = <<>>
    /\ result = <<>>
    /\ coreError = NoError
    /\ finalResult = <<>>
    /\ error = NoError
    /\ events = <<>>
    /\ adapter = NoAdapterCall
    /\ validation = NoValidation
    /\ authentication = NoAuthenticationCall
    /\ repoLast = NoRepositoryCall
    /\ snapshot = NoSnapshot
    /\ observers = <<>>
    /\ notify = NoNotification
    /\ observed = NoKeyCall
    /\ sharedLLM = NoCustomLLM
    /\ inflight = NoRequests

NextFallback == ExecuteToolsDirectly

SpecFallback == InitFallback /\ [][NextFallback]_vars

\* SpecAdapter: one call of a tool adapter's func, for any schema of the
\* set below, on free text or on the text of a structured payload, with any
\* behaviour of the tool method.
MaxTextLen == 2

Param(name, required) == [name |-> name, required |-> required]

AdapterSchemas ==
    { NoParameters,
      RequiredQ,
      <<Param("p", TRUE)>>,
      <<Param("p", FALSE)>>,
      <<Param("p", TRUE), Param("q", TRUE)>>,
      <<Param("q", FALSE), Param("p", TRUE)>>,
      <<Param("a", TRUE), Param("b", TRUE), Param("operation", TRUE)>>,
      <<Param("operation", TRUE), Param("a", TRUE), Param("b", TRUE)>>,
      <<Param("a", FALSE), Param("q", FALSE)>>,
      <<Param("city", FALSE), Param("text", FALSE)>>,
      <<Param("email", TRUE)>> }

AdapterTools ==
    {ToolMetadata(<<"t">>, <<>>, schema) : schema \in AdapterSchemas}

PayloadValues ==
    { JString(<<"x">>), JString(<<>>), JNumber(FALSE, 2, <<>>),
      JBoolean(FALSE), JNull }

Member(key, val) == [key |-> key, val |-> val]

\* the structured payloads callers send: objects with the fields p and q,
\* in either order, and one with the field `input`
Payloads ==
    { JObject(<<>>),
      JObject(<<Member(PropertyKey["input"], JString(<<"x">>))>>) }
        \cup { JObject(<<Member(PropertyKey[k], v)>>) :
                  k \in {"p", "q"}, v \in PayloadValues }
        \cup { JObject(<<Member(PropertyKey[kh[1]], v),
                         Member(PropertyKey[kh[2]], w)>>) :
                  kh \in { <<"p", "q">>, <<"q", "p">>, <<"p", "a">>,
                           <<"q", "a">> },
                  v \in PayloadValues, w \in PayloadValues }

AdapterChars == {"2", "+", " ", "\"", "n"}

FreeTexts ==
    Texts(AdapterChars, MaxTextLen)
        \cup { <<"w", "h", "a", "t", "'", "s", " ", "2", " ", "+", " ", "2",
                 "?">>,
               <<"7", "*", "1", ".", "5">>,
               <<"\"", "2", "+", "2", "\"">>,
               <<"[", "2", ",", "-", "2", "]">>,
               <<"A", "d", "d", " ", "2", " ", "t", "o", " ", "3">>,
               <<"a", "d", "d", " ", "2">>,
               <<"r", "a", "i", "n", " ", "i", "n", " ", "R", "o", "m", "e",
                 "?">>,
               <<"s", "a", "y", " ", "\"", "h", "i", "\"">>,
               <<"t", "o", " ", "a", "@", "b", ".", "c", "o">>,
               <<"n", "u", "l", "l">>,
               <<"5">> }

AdapterCalls ==
    { AdapterCall(tool, text, <<>>) : tool \in AdapterTools, text \in FreeTexts }
        \cup { AdapterCall(tool, JSONStringify(payload), <<payload>>) :
                  tool \in AdapterTools, payload \in Payloads }

InitAdapter ==
    /\ now = 0
    /\ config = [rateLimit |-> NoRateLimit, maxInputLength |-> 0,
                 sanitizeInput |-> FALSE, allowedDomains |-> <<>>,
                 authentication |-> NoAuthentication]
    /\ rateLimitStore = EmptyMap
    /\ uncleaned = EmptyMap
    /\ rlLast = NoCall
    /\ admitted = [k \in Keys \cup RequestKeys |-> 0]
    /\ agents = EmptyMap
    /\ tools = <<>>
    /\ aiProvider = [type |-> "openai", customLLM |-> FALSE]
    /\ agentProviders = EmptyMap
    /\ Idle
    /\ adapter \in AdapterCalls
    /\ validation = NoValidation
    /\ authentication = NoAuthenticationCall
    /\ repoLast = NoRepositoryCall
    /\ snapshot = NoSnapshot
    /\ observers = <<>>
    /\ notify = NoNotification
    /\ observed = NoKeyCall
    /\ sharedLLM = NoCustomLLM
    /\ inflight = NoRequests

NextAdapter ==
    \/ ToolFuncParse
    \/ ToolFuncSettle

SpecAdapter == InitAdapter /\ [][NextAdapter]_vars

\* SpecGuard: one call of validateInput under any guard configuration of
\* the set below.
GuardConfigs ==
    [rateLimit : {NoRateLimit}, maxInputLength : {0, 3},
     sanitizeInput : BOOLEAN,
     allowedDomains : { <<>>, <<{}>>, <<{<<"a", ".", "b">>}>> },
     authentication : {NoAuthentication}]

GuardChars == {"a", " ", "."}

GuardTexts ==
    Texts(GuardChars, MaxTextLen)
        \cup { <<"d", "r", "o", "p">>,
               <<"D", "r", "o", "p", " ", "i", "t">>,
               <<"d", "r", "o", "p", "s">>,
               <<"d", "r", "o", "p", "NUL", "s">>,
               <<"o", "k">>,
               <<"x", ".", "P", "H", "P", "\n">>,
               <<".", ".", "/", "a">>,
               <<"<", "s", "c", "r", "i", "p", "t", ">", "<", "/", "s", "c",
                 "r", "i", "p", "t", ">">>,
               <<"h", "t", "t", "p", ":", "/", "/", "a", ".", "b">>,
               <<"h", "t", "t", "p", "s", ":", "/", "/", "x", ".", "A", ".",
                 "b", "/", "p">>,
               <<"h", "t", "t", "p", ":", "/", "/", "e", ".", "c">>,
               <<"g", "o", " ", " ", "h", "t", "t", "p", ":", "/", "/", "e",
                 ".", "c">>,
               <<"g", "o", " ", "h", "t", "t", "p", ":", "/", "/", "a", ".",
                 "b", "\t", " ", "h", "t", "t", "p", ":", "/", "/", "b", "a",
                 ".", "b", " ", "e", "v", "a", "l">> }

GuardInputs == {NonStringInput} \cup {StringInput(t) : t \in GuardTexts}

InitGuard ==
    /\ now = 0
    /\ config \in GuardConfigs
    /\ rateLimitStore = EmptyMap
    /\ uncleaned = EmptyMap
    /\ rlLast = NoCall
    /\ admitted = [k \in Keys \cup RequestKeys |-> 0]
    /\ agents = EmptyMap
    /\ tools = <<>>
    /\ aiProvider = [type |-> "openai", customLLM |-> FALSE]
    /\ agentProviders = EmptyMap
    /\ Idle
    /\ adapter = NoAdapterCall
    /\ validation = NoValidation
    /\ authentication = NoAuthenticationCall
    /\ repoLast = NoRepositoryCall
    /\ snapshot = NoSnapshot
    /\ observers = <<>>
    /\ notify = NoNotification
    /\ observed = NoKeyCall
    /\ sharedLLM = NoCustomLLM
    /\ inflight = NoRequests

NextGuard == \E input \in GuardInputs : CallValidateInput(input)

SpecGuard == InitGuard /\ [][NextGuard]_vars

\* SpecAuth: one call of validateAuthentication, for any scheme of the
\* configuration and any headers of the context.
AuthenticationConfigs ==
    {NoAuthentication} \cup
    [enabled : {TRUE}, type : {"jwt", "api-key", "oauth", "basic"},
     validKeys : { {}, {<<"k">>} }]

AuthHeaders ==
    [authorization :
        {NoHeader, ArrayHeader} \cup
        {StringHeader(t) : t \in {<<>>, Bearer, Bearer \o <<"t">>, <<"k">>,
                                  <<"t", " ">> \o Bearer}},
     apiKey : {NoHeader} \cup {StringHeader(t) : t \in {<<>>, <<"k">>, <<"x">>}}]

AuthContexts == {[headers |-> h] : h \in AuthHeaders}

\* new SecurityMiddleware() without a configuration: `config || {}`
NoSecurityConfig ==
    [rateLimit |-> NoRateLimit, maxInputLength |-> 0, sanitizeInput |-> FALSE,
     allowedDomains |-> <<>>, authentication |-> NoAuthentication]

InitAuth ==
    /\ now = 0
    /\ config \in {[NoSecurityConfig EXCEPT !.authentication = a] :
                      a \in AuthenticationConfigs}
    /\ rateLimitStore = EmptyMap
    /\ uncleaned = EmptyMap
    /\ rlLast = NoCall
    /\ admitted = [k \in Keys \cup RequestKeys |-> 0]
    /\ agents = EmptyMap
    /\ tools = <<>>
    /\ aiProvider = [type |-> "openai", customLLM |-> FALSE]
    /\ agentProviders = EmptyMap
    /\ Idle
    /\ adapter = NoAdapterCall
    /\ validation = NoValidation
    /\ authentication = NoAuthenticationCall
    /\ repoLast = NoRepositoryCall
    /\ snapshot = NoSnapshot
    /\ observers = <<>>
    /\ notify = NoNotification
    /\ observed = NoKeyCall
    /\ sharedLLM = NoCustomLLM
    /\ inflight = NoRequests

NextAuth == \E ctx \in AuthContexts : CallValidateAuthentication(ctx)

SpecAuth == InitAuth /\ [][NextAuth]_vars

\* SpecDefault: a middleware constructed without a configuration, whose
\* three checks are called while the clock advances.
InitDefault ==
    /\ now = 0
    /\ config = NoSecurityConfig
    /\ rateLimitStore = EmptyMap
    /\ uncleaned = EmptyMap
    /\ rlLast = NoCall
    /\ admitted = [k \in Keys \cup RequestKeys |-> 0]
    /\ agents = EmptyMap
    /\ tools = <<>>
    /\ aiProvider = [type |-> "openai", customLLM |-> FALSE]
    /\ agentProviders = EmptyMap
    /\ Idle
    /\ adapter = NoAdapterCall
    /\ validation = NoValidation
    /\ authentication = NoAuthenticationCall
    /\ repoLast = NoRepositoryCall
    /\ snapshot = NoSnapshot
    /\ observers = <<>>
    /\ notify = NoNotification
    /\ observed = NoKeyCall
    /\ sharedLLM = NoCustomLLM
    /\ inflight = NoRequests

NextDefault ==
    \/ \E k \in Keys : RateLimit(k)
    \/ Tick
    \/ \E input \in GuardInputs : CallValidateInput(input)
    \/ \E ctx \in AuthContexts : CallValidateAuthentication(ctx)

SpecDefault == InitDefault /\ [][NextDefault]_vars

(***************************************************************************)
(* Properties.                                                             *)
(***************************************************************************)
Ran(stage) == \E i \in 1..Len(trace) : trace[i] = stage

\* C1: with a configured limit, no window of a key admits more than
\* maxRequests calls, no stored count exceeds maxRequests, and a call made
\* inside a window that has already admitted maxRequests calls is denied.
C1_AdmissionsBounded ==
    config.rateLimit.enabled =>
        LET maxRequests == config.rateLimit.maxRequests IN
        /\ \A k \in DOMAIN admitted : admitted[k] <= maxRequests
        /\ \A k \in DOMAIN rateLimitStore :
              rateLimitStore[k].count <= maxRequests
        /\ (rlLast.called /\ rlLast.inWindow
              /\ rlLast.admittedBefore >= maxRequests) => ~rlLast.allowed

C1_Witness ==
    /\ config.rateLimit.enabled
    /\ rlLast.called
    /\ rlLast.inWindow
    /\ rlLast.admittedBefore = config.rateLimit.maxRequests
    /\ ~rlLast.allowed

\* C2: for a request whose key the rate limiter denies at entry, neither
\* tool resolution nor the model invocation nor the fallback ever runs.
C2_DeniedRequestStops ==
    deniedAtEntry =>
        /\ ~Ran("resolveTools")
        /\ ~Ran("invoke")
        /\ ~Ran("fallback")

\* C3: for a request whose text the input guard finds invalid (here: longer
\* than the configured maximum), the tools are never resolved and the text
\* is never handed to the model.
C3_InvalidTextRejected ==
    (pc # "idle" /\ ~context.null /\ ExceedsMaxLength(config, context.input)) =>
        /\ ~Ran("resolveTools")
        /\ modelInput # <<context.input>>

\* C4: when the before hook throws, executeAgent is still called, with the
\* caller's own context, and the request can end with a response.
C4_BeforeFailureIsolated ==
    Ran("beforeModelCall:threw") =>
        /\ processedContext = context
        /\ pc = "done" => Ran("executeAgent")
        /\ error # HookError

C4_Witness ==
    /\ Ran("beforeModelCall:threw")
    /\ pc = "done"
    /\ error = NoError
    /\ finalResult # <<>>

\* C5: when the after hook throws, execute returns the response of
\* executeAgent unchanged and throws nothing.
C5_AfterFailureIsolated ==
    Ran("afterModelCall:threw") =>
        /\ pc = "done"
        /\ finalResult = result
        /\ error = NoError

C5_Witness ==
    /\ Ran("afterModelCall:threw")
    /\ finalResult = result
    /\ result # <<>>

\* C6: when executeAgent throws, execute throws that same error, whatever
\* the before hook did, and the after hook is not called.
C6_CoreFailurePropagates ==
    coreError # NoError =>
        /\ pc = "done"
        /\ error = coreError
        /\ finalResult = <<>>
        /\ ~Ran("afterModelCall") /\ ~Ran("afterModelCall:threw")

C6_Witness ==
    /\ coreError = "Agent not found"
    /\ error = coreError
    /\ Ran("beforeModelCall")

\* C7: once the tools of the request have been resolved, every failure up
\* to the end of the fallback becomes a returned response; executeAgent
\* throws nothing to its caller.
C7_InternalErrorsBecomeResponses ==
    (Ran("resolveTools") /\ pc = "done") =>
        /\ coreError = NoError
        /\ result # <<>>

\* C8: the fallback runs exactly for the requests whose model invocation
\* returned an empty output or the sentinel, never before the invocation has
\* returned, and fallbackUsed is set on exactly their responses.
ModelStopped ==
    /\ modelResult # <<>>
    /\ ~modelResult[1].threw
    /\ modelResult[1].output \in {"", Undefined, Sentinel}

C8_FallbackIffNoAnswer ==
    /\ (pc = "fallback" \/ Ran("fallback") \/ invoked # <<>>) => ModelStopped
    /\ (ModelStopped /\ result # <<>>) => Ran("fallback")
    /\ result # <<>> => (result[1].metadata.fallbackUsed <=> Ran("fallback"))

C8_Witness ==
    /\ result # <<>>
    /\ modelResult[1].output = Sentinel
    /\ Ran("fallback")
    /\ result[1].metadata.fallbackUsed

\* `w` occurs in `s` when the case of letters is ignored
OccursIgnoringCase(s, w) ==
    \E i \in 0..(Len(s) - Len(w)) :
        \A j \in 1..Len(w) :
            ToLowerCase(<<s[i + j]>>) = ToLowerCase(<<w[j]>>)

\* the textual match of a tool with an input, in the words of the
\* dispatcher's contract
TextualMatch(tool, input) ==
    \/ OccursIgnoringCase(input, tool.name)
    \/ \E token \in Range(Split(tool.name, "-")) :
          OccursIgnoringCase(input, token)
    \/ \E word \in Range(Split(tool.description, " ")) :
          Len(word) > 3 /\ OccursIgnoringCase(input, word)

Matching == {i \in 1..Len(agentTools) :
                TextualMatch(agentTools[i], processedContext.input)}

\* C9: when the fallback has finished it has called the first tool, in
\* registration order, that matches the input, and no other; and when a
\* tool's name is a substring of the input and no tool before it matches,
\* the output is 'Based on the <name> information: <text of that tool>'.
C9_FirstMatchAnswers ==
    (Ran("fallback") /\ result # <<>>) =>
        /\ Len(invoked) <= 1
        /\ Matching = {} => invoked = <<>>
        /\ Matching # {} =>
              /\ Len(invoked) = 1
              /\ \A j \in Matching : invoked[1].index <= j
              /\ invoked[1].index \in Matching
        /\ \A i \in 1..Len(agentTools) :
              (/\ Includes(processedContext.input, agentTools[i].name)
               /\ \A j \in 1..(i - 1) : j \notin Matching)
              => /\ invoked[1].index = i
                 /\ result[1].output =
                      BasedOn(agentTools[i].name,
                              [ok |-> invoked[1].ok, text |-> invoked[1].text])

C9_Witness ==
    /\ Ran("fallback")
    /\ result # <<>>
    /\ Len(agentTools) = 2
    /\ 1 \notin Matching
    /\ Includes(processedContext.input, agentTools[2].name)
    /\ result[1].output.kind = "based"
    /\ result[1].output.tool = agentTools[2].name

\* C10: the fallback never answers with the failure of a tool: its output
\* is the text of a tool that succeeded, or the apology.
C10_FailedToolIsSkipped ==
    (Ran("fallback") /\ result # <<>>) =>
        \/ result[1].output = Apology
        \/ result[1].output.kind = "based" /\ result[1].output.ok

(***************************************************************************)
(* Properties of the tool adapters and of parameter resolution.            *)
(***************************************************************************)
Schema == adapter.tool.parameters
RequiredNames == {Schema[i].name : i \in {j \in 1..Len(Schema) : Schema[j].required}}
DeclaredNames == {Schema[i].name : i \in 1..Len(Schema)}

\* parseInput has returned or thrown
Resolved == adapter.parsed # <<>>
Resolution == adapter.parsed[1]
BoundNames == {Resolution.args[k].name : k \in 1..Len(Resolution.args)}
ArgumentOf(name) ==
    Resolution.args[CHOOSE k \in 1..Len(Resolution.args) :
                       Resolution.args[k].name = name].val

\* the input is the text of a payload the caller built
FromPayload == adapter.payload # <<>>
PayloadHas(name) ==
    \E m \in Range(adapter.payload[1].members) : m.key = PropertyKey[name]
PayloadField(name) ==
    (CHOOSE m \in Range(adapter.payload[1].members) :
        m.key = PropertyKey[name]).val

\* the fields of the input read as a structured payload
FieldsOf(input) ==
    IF JSONParse(input).ok /\ JSONParse(input).val.t = "object"
    THEN Range(JSONParse(input).val.members) ELSE {}

\* C11: a finished call of a tool adapter has not thrown; it has answered
\* the method's result when resolution and the method succeeded, and an
\* 'Error: ...' text when either failed.
C11_AdapterNeverThrows ==
    adapter.pc = "done" =>
        /\ ~adapter.answer[1].threw
        /\ Resolution.threw => ~adapter.answer[1].ok
        /\ adapter.method # <<>> =>
              IF adapter.method[1].threw THEN ~adapter.answer[1].ok
              ELSE /\ adapter.answer[1].ok
                   /\ adapter.answer[1].text = adapter.method[1].text

\* C12: with a schema of one required parameter p, the text of a payload
\* that has the field p resolves to arguments in which p is that field's
\* value; a text that is no payload and in which no heuristic finds p makes
\* resolution fail with an error naming p.
C12_FieldByNameOrNamedError ==
    \A p \in DeclaredNames :
        (Resolved /\ RequiredNames = {p}) =>
            /\ (FromPayload /\ PayloadHas(p)) =>
                  /\ ~Resolution.threw
                  /\ Resolution.kind = "params"
                  /\ p \in BoundNames
                  /\ ArgumentOf(p) = PayloadField(p)
            /\ (/\ ~FromPayload
                /\ ~JSONParse(adapter.input).ok
                /\ ~ExtractParameterFromString(adapter.input, p).found) =>
                  /\ Resolution.threw
                  /\ Resolution.missing = p

C12_Witness ==
    /\ Resolved
    /\ Schema = <<Param("q", FALSE), Param("p", TRUE)>>
    /\ FromPayload
    /\ PayloadHas("p") /\ PayloadHas("q")
    /\ adapter.payload[1].members[1].key = PropertyKey["q"]
    /\ PayloadField("p") = JString(<<"x">>)
    /\ ArgumentOf("p") = JString(<<"x">>)

\* C13: when the payload lacks a required parameter that the text does not
\* yield either, resolution throws an error that names a parameter the
\* payload does not have.
C13_ErrorNamesMissingParameter ==
    (/\ Resolved /\ FromPayload
     /\ \E q \in RequiredNames :
           /\ ~PayloadHas(q)
           /\ ~ExtractParameterFromString(adapter.input, q).found)
    => /\ Resolution.threw
       /\ ~PayloadHas(Resolution.missing)

\* C14: a resolution that succeeded has bound every required parameter, and
\* the tool method has only been called after such a resolution.
C14_RequiredAlwaysBound ==
    /\ (Resolved /\ ~Resolution.threw) => RequiredNames \subseteq BoundNames
    /\ adapter.method # <<>> =>
          /\ Resolved /\ ~Resolution.threw
          /\ RequiredNames \subseteq BoundNames

C14_Witness ==
    /\ adapter.method # <<>>
    /\ ~FromPayload
    /\ RequiredNames = {"a", "b", "operation"}
    /\ Resolution.kind = "params"
    /\ ArgumentOf("operation") = JString(<<"a", "d", "d">>)

\* C15: a bound parameter whose name is outside the extractor table is a
\* field of the payload, with the field's value; a text that is no payload
\* and in which no parameter is found, none being required, resolves to
\* the text itself as a scalar.
C15_OnlyTableNamesExtracted ==
    Resolved =>
        /\ \A name \in BoundNames \ ExtractorNames :
              \E m \in FieldsOf(adapter.input) :
                 m.key = PropertyKey[name] /\ m.val = ArgumentOf(name)
        /\ FromPayload => FieldsOf(adapter.input)
                             = Range(adapter.payload[1].members)
        /\ (/\ ~JSONParse(adapter.input).ok
            /\ RequiredNames = {}
            /\ \A name \in DeclaredNames \cap ExtractorNames :
                  ~ExtractParameterFromString(adapter.input, name).found)
           => /\ Resolution.kind = "raw"
              /\ Resolution.value = JString(adapter.input)

C15_Witness ==
    /\ Resolved
    /\ Schema = <<Param("p", FALSE)>>
    /\ adapter.input = <<"s", "a", "y", " ", "\"", "h", "i", "\"">>
    /\ Resolution.kind = "raw"
    /\ Resolution.value = JString(adapter.input)

OperatorSymbols == {"+", "-", "*", "/", "^"}

\* two numbers with a symbolic operator between them
TwoNumbersAndSymbol(input) ==
    \E i, j, k \in 1..Len(input) :
        /\ i < j /\ j < k
        /\ input[i] \in Digits /\ input[j] \in OperatorSymbols
        /\ input[k] \in Digits

NoOperationWord(input) ==
    \A w \in Range(OperationWords) : ~Includes(ToLowerCase(input), w)

\* C16: with a, b and operation required, a text that has two numbers and
\* a symbolic operator but no operation word does not resolve: resolution
\* throws the error that names operation.
C16_SymbolIsNoOperation ==
    (/\ Resolved
     /\ RequiredNames = {"a", "b", "operation"}
     /\ TwoNumbersAndSymbol(adapter.input)
     /\ NoOperationWord(adapter.input))
    => /\ Resolution.threw
       /\ Resolution.missing = "operation"
       /\ adapter.method = <<>>

C16_Witness ==
    /\ adapter.pc = "done"
    /\ RequiredNames = {"a", "b", "operation"}
    /\ adapter.input = <<"w", "h", "a", "t", "'", "s", " ", "2", " ", "+",
                         " ", "2", "?">>
    /\ Resolution.threw
    /\ Resolution.missing = "operation"
    /\ ~adapter.answer[1].ok

(***************************************************************************)
(* Properties of the rate-limit table.                                     *)
(***************************************************************************)
WindowOpen(k) ==
    k \in DOMAIN rateLimitStore /\ now < rateLimitStore[k].resetTime

\* C17: rateLimit has no suspension point, so each call reads, compares and
\* writes the entry in one step: the count of an open window is the number
\* of calls the window has admitted, no admission is lost, and a call is
\* admitted into an open window only if fewer than maxRequests were before.
C17_CheckAndIncrementAtomic ==
    config.rateLimit.enabled =>
        /\ \A k \in DOMAIN rateLimitStore :
              rateLimitStore[k].count = admitted[k]
        /\ (rlLast.called /\ rlLast.inWindow /\ rlLast.allowed) =>
              /\ rlLast.admittedBefore < config.rateLimit.maxRequests
              /\ admitted[rlLast.key] = rlLast.admittedBefore + 1

C17_Witness ==
    /\ config.rateLimit.enabled
    /\ rlLast.called /\ rlLast.inWindow /\ rlLast.allowed
    /\ rlLast.admittedBefore = 1
    /\ rlLast.key \in DOMAIN rateLimitStore
    /\ rateLimitStore[rlLast.key].count = 2
    /\ \E k \in Keys \ {rlLast.key} : WindowOpen(k)

\* C18: a call on a key without an entry, or at or after the entry's
\* resetTime, stores {count 1, resetTime now + window} and answers allowed
\* with remaining maxRequests - 1; a later allowed call answers remaining
\* maxRequests minus the count it has stored; a denied call answers
\* remaining 0; with maxRequests 1 a call inside an open window is denied.
C18_WindowAnswers ==
    [][(rlLast' # rlLast /\ config.rateLimit.enabled) =>
          LET k == rlLast'.key
              maxRequests == config.rateLimit.maxRequests
              window == config.rateLimit.windowMs * 1000
              fresh == \/ k \notin DOMAIN rateLimitStore
                       \/ rateLimitStore[k].resetTime <= now
          IN IF fresh
             THEN /\ rateLimitStore'[k] =
                        [count |-> 1, resetTime |-> now + window]
                  /\ rlLast'.allowed
                  /\ rlLast'.remaining = maxRequests - 1
                  /\ rlLast'.resetTime = now + window
             ELSE /\ rlLast'.resetTime = rateLimitStore[k].resetTime
                  /\ maxRequests = 1 => ~rlLast'.allowed
                  /\ IF rlLast'.allowed
                     THEN rlLast'.remaining
                             = maxRequests - rateLimitStore'[k].count
                     ELSE /\ rlLast'.remaining = 0
                          /\ rateLimitStore' = rateLimitStore]_vars

C18_Witness ==
    /\ config.rateLimit.enabled
    /\ config.rateLimit.maxRequests = 1
    /\ rlLast.called /\ rlLast.inWindow
    /\ ~rlLast.allowed
    /\ rlLast.remaining = 0
    /\ rlLast.key \in DOMAIN rateLimitStore
    /\ rateLimitStore[rlLast.key].count = 1

\* C19: no stored entry outlives its window by a whole window (so the
\* table holds at most the keys that were active within one window), and a
\* run of cleanupRateLimitStore removes the entries with resetTime <= now
\* and no others.
C19_SweepBoundsTable ==
    /\ [](config.rateLimit.enabled =>
            \A k \in DOMAIN rateLimitStore :
               now < rateLimitStore[k].resetTime
                        + config.rateLimit.windowMs * 1000)
    /\ [][(rateLimitStore' # rateLimitStore /\ rlLast' = rlLast) =>
             /\ DOMAIN rateLimitStore' =
                   {k \in DOMAIN rateLimitStore :
                       rateLimitStore[k].resetTime > now}
             /\ \A k \in DOMAIN rateLimitStore' :
                   rateLimitStore'[k] = rateLimitStore[k]]_vars

(***************************************************************************)
(* Properties of validateInput.                                            *)
(***************************************************************************)
\* the text validateInput checks for patterns and URLs
CheckedText ==
    IF config.sanitizeInput THEN SanitizeInput(validation.input.text)
    ELSE validation.input.text

ErrorRank(e) ==
    CASE e = LengthError -> 1 [] e = MaliciousError -> 2
      [] e = DomainError -> 3 [] OTHER -> 0

\* C20: a value that is no string, or the empty string, gets exactly the
\* one error and nothing else; for any other input each of the three
\* checks has its error in the list exactly when it fails, whatever the
\* other checks found, and the errors stand in the order of the checks.
C20_ErrorsAccumulate ==
    validation.called =>
        LET r == validation.result
            text == validation.input.text
        IN IF ~validation.input.string \/ text = <<>>
           THEN /\ r.errors = <<EmptyError>>
                /\ ~r.isValid
                /\ r.sanitizedInput = <<>>
           ELSE /\ LengthError \in Range(r.errors)
                      <=> (config.maxInputLength # 0
                              /\ Len(text) > config.maxInputLength)
                /\ MaliciousError \in Range(r.errors)
                      <=> ContainsMaliciousContent(CheckedText)
                /\ DomainError \in Range(r.errors)
                      <=> (/\ config.allowedDomains # <<>>
                           /\ \E url \in Range(ExtractUrls(CheckedText, 1)) :
                                 ~IsAllowedDomain(config, url))
                /\ \A i, j \in 1..Len(r.errors) :
                      i < j => /\ 0 < ErrorRank(r.errors[i])
                               /\ ErrorRank(r.errors[i]) < ErrorRank(r.errors[j])
                /\ EmptyError \notin Range(r.errors)
                /\ r.isValid <=> r.errors = <<>>

C20_Witness ==
    /\ validation.called
    /\ validation.result.errors = <<LengthError, MaliciousError, DomainError>>

\* C21: the result of validateInput is valid exactly when no check
\* produced an error (the input is a non-empty string, within the length
\* limit, free of malicious patterns and of disallowed URLs); it carries an
\* errors list exactly when it is invalid and a sanitizedInput exactly when
\* it is valid.
C21_ValidIffNoError ==
    validation.called =>
        LET r == validation.result
            text == validation.input.text
        IN /\ r.isValid <=>
                 /\ validation.input.string /\ text # <<>>
                 /\ ~ExceedsMaxLength(config, text)
                 /\ ~ContainsMaliciousContent(CheckedText)
                 /\ DisallowedUrls(config, CheckedText) = <<>>
           /\ r.errors # <<>> <=> ~r.isValid
           /\ r.sanitizedInput # <<>> <=> r.isValid
           /\ r.isValid => r.sanitizedInput = <<CheckedText>>

C21_Witness ==
    /\ validation.called
    /\ validation.input.string /\ validation.input.text # <<>>
    /\ ~validation.result.isValid
    /\ validation.result.errors = <<MaliciousError>>
    /\ validation.result.sanitizedInput = <<>>
    /\ config.sanitizeInput

\* C22: a non-empty input without malicious content and without disallowed
\* URLs, no longer than maxInputLength, is valid; sanitizing what
\* sanitizeInput returned changes nothing; and validateInput of the
\* returned sanitizedInput is valid again and returns the same text.
C22_ValidAndIdempotent ==
    (/\ validation.called
     /\ validation.input.string /\ validation.input.text # <<>>
     /\ ~ExceedsMaxLength(config, validation.input.text)
     /\ ~ContainsMaliciousContent(validation.input.text)
     /\ DisallowedUrls(config, validation.input.text) = <<>>) =>
        /\ validation.result.isValid
        /\ SanitizeInput(SanitizeInput(validation.input.text))
              = SanitizeInput(validation.input.text)
        /\ \A again \in {ValidateInput(config,
                            StringInput(validation.result.sanitizedInput[1]))} :
              /\ again.isValid
              /\ again.sanitizedInput = validation.result.sanitizedInput

\* the hostname is an entry of the allowlist or a sub-domain of one
HostAllowed(url) ==
    \E allowed \in config.allowedDomains[1] :
        \/ Hostname(url) = allowed
        \/ /\ Len(Hostname(url)) > Len(allowed)
           /\ SubSeq(Hostname(url), Len(Hostname(url)) - Len(allowed),
                     Len(Hostname(url))) = <<".">> \o allowed

\* C23: with an allowlist configured, a valid result means that the
\* hostname of every URL of the checked text is an entry or a sub-domain of
\* one; the other URLs, and only they, are reported with the allowlist
\* error, which makes the result invalid.  Without an allowlist no URL
\* brings the allowlist error.
C23_AllowlistDecides ==
    (validation.called /\ validation.input.string
        /\ validation.input.text # <<>>) =>
        LET r == validation.result
            urls == ExtractUrls(CheckedText, 1)
        IN IF config.allowedDomains = <<>>
           THEN DomainError \notin Range(r.errors) /\ r.disallowedUrls = <<>>
           ELSE /\ r.isValid => \A k \in 1..Len(urls) : HostAllowed(urls[k])
                /\ r.disallowedUrls
                      = SelectSeq(urls, LAMBDA url : ~HostAllowed(url))
                /\ DomainError \in Range(r.errors) <=> r.disallowedUrls # <<>>
                /\ r.disallowedUrls # <<>> => ~r.isValid

C23_Witness ==
    /\ validation.called
    /\ config.allowedDomains # <<>>
    /\ Len(ExtractUrls(CheckedText, 1)) = 2
    /\ Len(validation.result.disallowedUrls) = 1
    /\ DomainError \in Range(validation.result.errors)

\* the context carries neither an authorization nor an x-api-key header
NoCredential(ctx) ==
    ctx.headers.authorization.kind = "absent"
        /\ ctx.headers.apiKey.kind = "absent"

\* C24: with authentication enabled and one of the three schemes
\* configured, validateAuthentication never throws, a context without a
\* credential is answered authenticated = false with an error, and an
\* authenticated answer is only given to a context that carries a
\* credential.
C24_CredentialRequired ==
    (/\ authentication.called
     /\ config.authentication.enabled
     /\ config.authentication.type \in {"jwt", "api-key", "oauth"}) =>
        /\ ~authentication.result.threw
        /\ NoCredential(authentication.context) =>
              /\ ~authentication.result.authenticated
              /\ authentication.result.error # ""
        /\ authentication.result.authenticated =>
              ~NoCredential(authentication.context)

\* C25: a middleware without a configuration allows every rateLimit call
\* and stores no window, authenticates every context, and validateInput
\* reports neither the length nor a URL and returns the input as it was
\* given.
C25_DefaultsDisabled ==
    /\ rateLimitStore = EmptyMap
    /\ uncleaned = EmptyMap
    /\ rlLast.called => rlLast.allowed
    /\ authentication.called =>
          /\ authentication.result.authenticated
          /\ ~authentication.result.threw
          /\ authentication.result.error = ""
    /\ validation.called =>
          /\ LengthError \notin Range(validation.result.errors)
          /\ DomainError \notin Range(validation.result.errors)
          /\ validation.result.isValid =>
                validation.result.sanitizedInput = <<validation.input.text>>

C25_Witness ==
    /\ rlLast.called /\ now > 0
    /\ authentication.called /\ NoCredential(authentication.context)
    /\ validation.called /\ validation.result.isValid
    /\ Len(validation.input.text) > 3
    /\ ContainsExternalUrls(validation.input.text)
    /\ SanitizeInput(validation.input.text) # validation.input.text

\* the positions of the tool table whose record belongs to the instance of
\* the agent the request is for
OwnedPositions ==
    {i \in 1..Len(tools) :
        tools[i].instance = agents[AgentNameOf(provider)].instance}

\* C26: once the tools of a request are resolved, its adapters are the
\* records of the tool table owned by the agent's instance, one for each
\* and in the order of the table; the fallback calls none but these, and
\* the metadata of the response lists their names.
C26_OwnToolsOnly ==
    "resolveTools" \in Range(trace) =>
        /\ Len(agentTools) = Cardinality(OwnedPositions)
        /\ \A k \in 1..Len(agentTools) :
              \E i \in OwnedPositions :
                 /\ Cardinality({j \in OwnedPositions : j < i}) = k - 1
                 /\ agentTools[k] = tools[i]
        /\ \A k \in 1..Len(invoked) :
              /\ invoked[k].index \in 1..Len(agentTools)
              /\ invoked[k].name = agentTools[invoked[k].index].name
              /\ agentTools[invoked[k].index].instance
                    = agents[AgentNameOf(provider)].instance
        /\ result # <<>> =>
              /\ result[1].metadata.tools
                    = [k \in 1..Len(agentTools) |-> agentTools[k].name]
              /\ result[1].metadata.availableTools
                    = result[1].metadata.tools

C26_Witness ==
    /\ result # <<>>
    /\ invoked # <<>>
    /\ Len(agentTools) = 2
    /\ Len(tools) = 3
    /\ tools[1].instance # tools[2].instance

(***************************************************************************)
(* SpecRegistry: callers save, delete and list the agents and tools of the *)
(* repository, and work on the Maps that the list calls returned.          *)
(***************************************************************************)
RepoAgentNames == {"alpha", "beta"}
RepoInstances == {"i1", "i2"}
RepoToolNames == {<<"A">>, <<"B">>}
RepoTools ==
    [name : RepoToolNames, description : {<<>>}, parameters : {NoParameters},
     instance : RepoInstances]

InitRegistry ==
    /\ now = 0
    /\ config = NoSecurityConfig
    /\ rateLimitStore = EmptyMap
    /\ uncleaned = EmptyMap
    /\ rlLast = NoCall
    /\ admitted = [k \in Keys \cup RequestKeys |-> 0]
    /\ agents = EmptyMap
    /\ tools = <<>>
    /\ aiProvider \in AIProviderConfigs
    /\ agentProviders = EmptyMap
    /\ Idle
    /\ adapter = NoAdapterCall
    /\ validation = NoValidation
    /\ authentication = NoAuthenticationCall
    /\ repoLast = NoRepositoryCall
    /\ snapshot = NoSnapshot
    /\ observers = <<>>
    /\ notify = NoNotification
    /\ observed = NoKeyCall
    /\ sharedLLM = NoCustomLLM
    /\ inflight = NoRequests

NextRegistry ==
    \/ \E name \in RepoAgentNames, instance \in RepoInstances :
          CallSaveAgent(name, instance)
    \/ \E name \in RepoAgentNames : CallDeleteAgent(name)
    \/ \E tool \in RepoTools : CallSaveTool(tool)
    \/ \E name \in RepoToolNames : CallDeleteTool(name)
    \/ CallGetAllAgents
    \/ CallGetAllTools
    \/ \E name \in RepoAgentNames, instance \in RepoInstances :
          /\ snapshot.taken /\ snapshot.of = "agents"
          /\ SnapshotSet(name, [instance |-> instance])
    \/ \E tool \in RepoTools :
          /\ snapshot.taken /\ snapshot.of = "tools"
          /\ SnapshotSet(tool.name, tool)
    \/ \E name \in RepoAgentNames :
          /\ snapshot.taken /\ snapshot.of = "agents"
          /\ SnapshotDelete(name)
    \/ \E name \in RepoToolNames :
          /\ snapshot.taken /\ snapshot.of = "tools"
          /\ SnapshotDelete(name)
    \/ \E name \in RepoAgentNames, instance \in RepoInstances :
          /\ snapshot.taken /\ snapshot.of = "agents"
          /\ SnapshotWrite(name, instance)
    \/ \E name \in RepoToolNames, instance \in RepoInstances :
          /\ snapshot.taken /\ snapshot.of = "tools"
          /\ SnapshotWrite(name, instance)

SpecRegistry == InitRegistry /\ [][NextRegistry]_vars

\* C27: every call of saveAgent, saveTool, deleteAgent or deleteTool leaves
\* at most one record per name; after a save the lookup of the name returns
\* the record just saved and the number of entries has grown by one for a
\* new name and not at all for a known one; after a delete the lookup of the
\* name is absent, the existence check is false and the call answered
\* whether the name was there.
C27_OneRecordPerName ==
    [][ repoLast'.flip # repoLast.flip =>
          /\ \A i, j \in 1..Len(tools') :
                tools'[i].name = tools'[j].name => i = j
          /\ repoLast'.op = "saveAgent" =>
                /\ GetAgent(agents', repoLast'.name) = repoLast'.record
                /\ AgentExists(agents', repoLast'.name)
                /\ AgentCount(agents') = repoLast'.sizeBefore
                      + (IF repoLast'.existed THEN 0 ELSE 1)
          /\ repoLast'.op = "saveTool" =>
                /\ GetTool(tools', repoLast'.name) = repoLast'.record
                /\ ToolCount(tools') = repoLast'.sizeBefore
                      + (IF repoLast'.existed THEN 0 ELSE 1)
          /\ repoLast'.op = "deleteAgent" =>
                /\ GetAgent(agents', repoLast'.name) = Absent
                /\ ~AgentExists(agents', repoLast'.name)
                /\ repoLast'.answer = repoLast'.existed
                /\ AgentCount(agents') = repoLast'.sizeBefore
                      - (IF repoLast'.existed THEN 1 ELSE 0)
          /\ repoLast'.op = "deleteTool" =>
                /\ GetTool(tools', repoLast'.name) = Absent
                /\ ~HasTool(tools', repoLast'.name)
                /\ repoLast'.answer = repoLast'.existed
                /\ ToolCount(tools') = repoLast'.sizeBefore
                      - (IF repoLast'.existed THEN 1 ELSE 0) ]_vars

\* a tool was saved under a name the table already held, beside another
\* tool, and the table still has two entries
C27_Witness ==
    /\ repoLast.op = "saveTool"
    /\ repoLast.existed
    /\ repoLast.sizeBefore = 2
    /\ ToolCount(tools) = 2
    /\ GetTool(tools, repoLast.name) = repoLast.record

\* C28: nothing the caller does to the Map returned by getAllAgents or
\* getAllTools (setting, deleting, or assigning to a field of a record
\* reached through it) changes the agents and tools of the repository.
C28_SnapshotIsDefensiveCopy ==
    [][ (snapshot.taken /\ repoLast'.flip = repoLast.flip
           /\ snapshot' # snapshot)
          => (agents' = agents /\ tools' = tools) ]_vars

\* C29: while a request is in the pipeline, and when execute has returned or
\* thrown, the caller's context is what the caller passed in; a context that
\* differs from it is only ever the value the before hook returned.
C29_CallerContextUntouched ==
    [][ /\ pc # "idle" => context' = context
        /\ processedContext' # context' =>
              /\ \E i \in 1..Len(trace') : trace'[i] = "beforeModelCall"
              /\ \E o \in BeforeOutcomes(context') :
                    ~o.threw /\ processedContext' = o.value ]_vars

\* execute has returned for a request whose before hook handed the caller's
\* own context on to executeAgent, which ran the model
C29_Witness ==
    /\ pc = "done"
    /\ error = NoError
    /\ ~context.null
    /\ processedContext = context
    /\ \E i \in 1..Len(trace) : trace[i] = "invoke"

(***************************************************************************)
(* SpecEvents: observers are added and removed, events are emitted, and    *)
(* the observers handle them.                                              *)
(***************************************************************************)
InitEvents ==
    /\ now = 0
    /\ config = NoSecurityConfig
    /\ rateLimitStore = EmptyMap
    /\ uncleaned = EmptyMap
    /\ rlLast = NoCall
    /\ admitted = [k \in Keys \cup RequestKeys |-> 0]
    /\ agents = EmptyMap
    /\ tools = <<>>
    /\ aiProvider \in AIProviderConfigs
    /\ agentProviders = EmptyMap
    /\ Idle
    /\ adapter = NoAdapterCall
    /\ validation = NoValidation
    /\ authentication = NoAuthenticationCall
    /\ repoLast = NoRepositoryCall
    /\ snapshot = NoSnapshot
    /\ observers = <<>>
    /\ notify = NoNotification
    /\ observed = NoKeyCall
    /\ sharedLLM = NoCustomLLM
    /\ inflight = NoRequests

NextEvents ==
    \/ \E observer \in Observers : AddObserver(observer)
    \/ \E observer \in Observers : RemoveObserver(observer)
    \/ \E type \in AgentEventTypes : NotifyObservers(type)
    \/ ForEachRound

SpecEvents == InitEvents /\ [][NextEvents]_vars

\* C30: when an emit call is over, the event has been handed exactly once
\* to every observer that was registered when it was emitted, in the order
\* of registration, and the call has returned.
C30_DeliveredToAll ==
    notify.done => /\ notify.delivered = notify.registered
                   /\ ~notify.threw

(***************************************************************************)
(* SpecKey: the host derives rate-limit keys from its contexts.            *)
(***************************************************************************)
KeyContexts ==
    {NullContext} \cup
    [null : {FALSE}, input : {<<"a">>}, ip : {"", "1.1.1.1", "2.2.2.2"},
     userId : {"", "u1", "u2"}, sessionId : {"", "k1"}, meta : {"caller"}]

InitKey ==
    /\ now = 0
    /\ config = NoSecurityConfig
    /\ rateLimitStore = EmptyMap
    /\ uncleaned = EmptyMap
    /\ rlLast = NoCall
    /\ admitted = [k \in Keys \cup RequestKeys |-> 0]
    /\ agents = EmptyMap
    /\ tools = <<>>
    /\ aiProvider \in AIProviderConfigs
    /\ agentProviders = EmptyMap
    /\ Idle
    /\ adapter = NoAdapterCall
    /\ validation = NoValidation
    /\ authentication = NoAuthenticationCall
    /\ repoLast = NoRepositoryCall
    /\ snapshot = NoSnapshot
    /\ observers = <<>>
    /\ notify = NoNotification
    /\ observed = NoKeyCall
    /\ sharedLLM = NoCustomLLM
    /\ inflight = NoRequests

NextKey ==
    \E keyGenerator \in KeyGenerators, ctx \in KeyContexts :
        CallGenerateRateLimitKey(keyGenerator, ctx)

SpecKey == InitKey /\ [][NextKey]_vars

\* the fields of a context that is not null, in the order of the default
\* derivation, followed by the constant
KeyCandidates(ctx) ==
    SelectSeq(<<ctx.ip, ctx.userId, ctx.sessionId, "anonymous">>,
              LAMBDA f : f # "")

\* C31: without a configured key generator the key of a context is the
\* first present one of ip, userId and sessionId, and 'anonymous' when none
\* is present; with a configured generator the key is what the generator
\* returns for the context (or the generator's error).
C31_KeyDerivation ==
    observed.called =>
        IF observed.keyGenerator = "none"
        THEN observed.result = Returned(Head(KeyCandidates(observed.context)))
        ELSE observed.result
                = KeyGenerator(observed.keyGenerator, observed.context)

\* the default derivation fell through an absent ip to the user id of a
\* context that also has a session id
C31_Witness ==
    /\ observed.called
    /\ observed.keyGenerator = "none"
    /\ ~observed.context.null
    /\ observed.context.ip = ""
    /\ observed.context.userId = "u1"
    /\ observed.context.sessionId = "k1"
    /\ observed.result = Returned("u1")

\* C32: for an input that is the text of a structured payload, with no
\* declared parameter required and none a field of the payload, parseInput
\* returns the payload's field `input` when the payload has one, else the
\* payload's first string-valued field, else the raw text.
C32_SingleValueHeuristic ==
    (adapter.parsed # <<>> /\ adapter.payload # <<>>) =>
        LET payload == adapter.payload[1]
            params == adapter.tool.parameters
            parsed == adapter.parsed[1]
            strings == {k \in 1..Len(payload.members) :
                           payload.members[k].val.t = "string"}
        IN (\A i \in 1..Len(params) :
               /\ ~params[i].required
               /\ ~Property(payload, params[i].name).defined)
           => /\ ~parsed.threw
              /\ parsed.kind # "params"
              /\ parsed.value =
                    IF Property(payload, "input").defined
                    THEN Property(payload, "input").value
                    ELSE IF strings # {}
                    THEN payload.members[Min(strings)].val
                    ELSE JString(adapter.input)

(***************************************************************************)
(* SpecComprehensive: requests to the registered ComprehensiveAIAgent.     *)
(***************************************************************************)
ComprehensiveInputs ==
    { <<>>, <<" ">>, <<"a">>, <<" ", "a", " ", " ", "b">>,
      <<"h", "a", "c", "k">>, <<"<", "S", "P", "A", "M", ">">> }

ComprehensiveContexts ==
    {NullContext} \cup
    {Context(i, "k1", "caller") : i \in ComprehensiveInputs}

InitComprehensive ==
    /\ now = 0
    /\ config = NoSecurityConfig
    /\ rateLimitStore = EmptyMap
    /\ uncleaned = EmptyMap
    /\ rlLast = NoCall
    /\ admitted = [k \in Keys \cup RequestKeys |-> 0]
    /\ agents = RegisterAgent(EmptyMap, "ComprehensiveAIAgent")
    /\ tools = RegisterTools(<<>>, "ComprehensiveAIAgent")
    /\ aiProvider \in AIProviderConfigs
    /\ agentProviders = EmptyMap
    /\ Idle
    /\ adapter = NoAdapterCall
    /\ validation = NoValidation
    /\ authentication = NoAuthenticationCall
    /\ repoLast = NoRepositoryCall
    /\ snapshot = NoSnapshot
    /\ observers = <<>>
    /\ notify = NoNotification
    /\ observed = NoKeyCall
    /\ sharedLLM = NoCustomLLM
    /\ inflight = NoRequests

NextComprehensive ==
    \/ \E ctx \in ComprehensiveContexts : Execute("ComprehensiveAIAgent", ctx)
    \/ ComprehensiveBeforeModelCall
    \/ ExecuteAgent
    \/ CreateLLM
    \/ Invoke
    \/ ExecuteToolsDirectly
    \/ ComprehensiveAfterModelCall

SpecComprehensive == InitComprehensive /\ [][NextComprehensive]_vars

\* C33: when the before hook of ComprehensiveAIAgent returned a context
\* flagged validationFailed and execute has returned, the response is the
\* replacement message that the hook put in the context's input, with
\* errorHandled in its metadata.
C33_FlagReachesAfterHook ==
    (pc = "done" /\ finalResult # <<>> /\ ValidationFailed(processedContext))
        => /\ finalResult[1].output = TextOutput(processedContext.input)
           /\ "errorHandled" \in DOMAIN finalResult[1].metadata
           /\ finalResult[1].metadata.errorHandled

(***************************************************************************)
(* SpecObserved: requests through the pipeline while the event subject has *)
(* observers.                                                              *)
(***************************************************************************)
ObserverLists ==
    { <<>>, <<"AgentEventLogger">>, <<"failing">>,
      <<"AgentEventLogger", "failing">>, <<"audit", "AgentEventLogger">> }

InitObserved ==
    /\ now = 0
    /\ config = NoSecurityConfig
    /\ rateLimitStore = EmptyMap
    /\ uncleaned = EmptyMap
    /\ rlLast = NoCall
    /\ admitted = [k \in Keys \cup RequestKeys |-> 0]
    /\ agents \in {EmptyMap, RegisterAgent(EmptyMap, "AlphaAgent")}
    /\ tools = RegisterTools(<<>>, "AlphaAgent")
    /\ aiProvider \in AIProviderConfigs
    /\ agentProviders = EmptyMap
    /\ Idle
    /\ adapter = NoAdapterCall
    /\ validation = NoValidation
    /\ authentication = NoAuthenticationCall
    /\ repoLast = NoRepositoryCall
    /\ snapshot = NoSnapshot
    /\ observers \in ObserverLists
    /\ notify = NoNotification
    /\ observed = NoKeyCall
    /\ sharedLLM = NoCustomLLM
    /\ inflight = NoRequests

NextObserved ==
    \/ \E ctx \in CallerContexts : Execute("AlphaAgent", ctx)
    \/ BeforeModelCall
    \/ ExecuteAgent
    \/ CreateLLM
    \/ Invoke
    \/ ExecuteToolsDirectly
    \/ AfterModelCall

SpecObserved == InitObserved /\ [][NextObserved]_vars

\* C34: when executeAgent is over, a call that found its agent has emitted
\* exactly one event, agent-executed if and only if it returned a response
\* and agent-errored if and only if it threw; a call that threw before it
\* found its agent has emitted no event and called no tool and no model.
C34_OneEventPerExecution ==
    (result # <<>> \/ coreError # NoError) =>
        IF \E i \in 1..Len(trace) : trace[i] = "resolveTools"
        THEN /\ Len(events) = 1
             /\ events[1] = "agent-executed" <=> result # <<>>
             /\ events[1] = "agent-errored" <=> coreError # NoError
        ELSE /\ events = <<>>
             /\ invoked = <<>>
             /\ modelResult = <<>>

\* C35: a denied rateLimit call leaves the window table as it was; a
\* rateLimit call on a key leaves the entries of all other keys as they
\* were; a call is denied only inside the window of its key, so the first
\* call at or after the window's resetTime is admitted.
C35_DenialsLeaveTable ==
    [][ \A k \in Keys : RateLimit(k) =>
          /\ ~rlLast'.allowed => rateLimitStore' = rateLimitStore
          /\ DOMAIN rateLimitStore' \subseteq DOMAIN rateLimitStore \cup {k}
          /\ \A j \in DOMAIN rateLimitStore \ {k} :
                /\ j \in DOMAIN rateLimitStore'
                /\ rateLimitStore'[j] = rateLimitStore[j]
          /\ ~rlLast'.allowed =>
                /\ k \in DOMAIN rateLimitStore
                /\ now < rateLimitStore[k].resetTime
          /\ (k \in DOMAIN rateLimitStore
                 /\ rateLimitStore[k].resetTime <= now) =>
                /\ rlLast'.allowed
                /\ rateLimitStore'[k].count = 1 ]_vars

\* a call was denied while the table also held the window of another key
C35_Witness ==
    /\ rlLast.called
    /\ ~rlLast.allowed
    /\ DOMAIN rateLimitStore = Keys
    /\ now > 0

\* C36: at every point of every run of rateLimit calls, clock advances and
\* cleanup runs, a rateLimit call on any key returns what it would return
\* had no cleanup run: the same allowed, remaining and resetTime.
C36_CleanupTransparent ==
    \A k \in Keys :
        RateLimitResult(rateLimitStore, config.rateLimit, now, k)
            = RateLimitResult(uncleaned, config.rateLimit, now, k)

\* a cleanup run has dropped the elapsed window of a key that had used up
\* its limit, while the window of another key is still open
C36_Witness ==
    \E k \in Keys :
        /\ k \in DOMAIN uncleaned
        /\ k \notin DOMAIN rateLimitStore
        /\ config.rateLimit.enabled
        /\ uncleaned[k].count = config.rateLimit.maxRequests
        /\ rateLimitStore # EmptyMap

\* C37: every tool that a registered agent class declares is among the tools
\* that executeAgentInternal gathers for the agent, whatever other classes
\* have been registered before or after it.
C37_ToolsSurvive ==
    \A cls \in AgentClasses :
        AgentNameOf(cls) \in DOMAIN agents =>
            \A i \in 1..Len(DeclaredTools(cls)) :
                \E j \in 1..Len(AgentToolsOf(tools, InstanceOf(cls))) :
                    AgentToolsOf(tools, InstanceOf(cls))[j].name
                        = DeclaredTools(cls)[i].name

(***************************************************************************)
(* SpecInFlight: one request for the agent alpha goes through the pipeline *)
(* while other tasks save and delete agents and tools; a write can land at *)
(* every suspension of the request.                                        *)
(***************************************************************************)
InFlightTools ==
    { [name |-> <<"A">>, description |-> <<>>, parameters |-> NoParameters,
       instance |-> "i2"] }

InFlightToolNames == { <<"A">>, <<"A", "-", "b">> }

InitInFlight ==
    /\ now = 0
    /\ config = NoSecurityConfig
    /\ rateLimitStore = EmptyMap
    /\ uncleaned = EmptyMap
    /\ rlLast = NoCall
    /\ admitted = [k \in Keys \cup RequestKeys |-> 0]
    /\ agents = RegisterAgent(EmptyMap, "AlphaAgent")
    /\ tools = RegisterTools(<<>>, "AlphaAgent")
    /\ aiProvider = [type |-> "openai", customLLM |-> FALSE]
    /\ agentProviders = EmptyMap
    /\ Idle
    /\ adapter = NoAdapterCall
    /\ validation = NoValidation
    /\ authentication = NoAuthenticationCall
    /\ repoLast = NoRepositoryCall
    /\ snapshot = NoSnapshot
    /\ observers = <<>>
    /\ notify = NoNotification
    /\ observed = NoKeyCall
    /\ sharedLLM = NoCustomLLM
    /\ inflight = NoRequests

NextInFlight ==
    \/ CallSaveAgent("alpha", "i2")
    \/ CallDeleteAgent("alpha")
    \/ \E tool \in InFlightTools : CallSaveTool(tool)
    \/ \E name \in InFlightToolNames : CallDeleteTool(name)
    \/ \E ctx \in CallerContexts : Execute("AlphaAgent", ctx)
    \/ BeforeModelCall
    \/ ExecuteAgent
    \/ CreateLLM
    \/ Invoke
    \/ ExecuteToolsDirectly
    \/ AfterModelCall

SpecInFlight == InitInFlight /\ [][NextInFlight]_vars

\* C38: a request that passes the existence check of executeAgent finds its
\* agent in the same step and gathers the tools of that agent's instance
\* there; from then on no step of another task changes the tools of the
\* request, every tool the fallback calls is one of them, and the response
\* names exactly them.
C38_RequestKeepsItsTools ==
    [][ /\ (pc = "executeAgent" /\ pc' = "createLLM") =>
              /\ AgentExists(agents, AgentNameOf(provider))
              /\ agentTools' =
                     SelectSeq(tools, LAMBDA t :
                         t.instance = agents[AgentNameOf(provider)].instance)
        /\ pc \in {"createLLM", "invoke", "fallback", "afterModelCall"} =>
              agentTools' = agentTools
        /\ (pc = "fallback" /\ Len(invoked') > Len(invoked)) =>
              /\ invoked'[Len(invoked')].index \in 1..Len(agentTools)
              /\ invoked'[Len(invoked')].name
                     = agentTools[invoked'[Len(invoked')].index].name
        /\ (pc \in {"invoke", "fallback"} /\ result' # <<>>) =>
              /\ result'[1].metadata.tools = ToolNames(agentTools)
              /\ result'[1].metadata.availableTools = ToolNames(agentTools)
      ]_vars

\* a response was returned, after a fallback call, to a request whose agent
\* and whose tools were deleted while it was in flight
C38_Witness ==
    /\ result # <<>>
    /\ invoked # <<>>
    /\ agentTools # <<>>
    /\ ~AgentExists(agents, AgentNameOf(provider))
    /\ \A i \in 1..Len(agentTools) : ~HasTool(tools, agentTools[i].name)

(***************************************************************************)
(* SpecCustomLLM: the 'custom' provider.  Two requests, each for one of    *)
(* two agents, are in flight together; every await of executeAgentInternal *)
(* is a point where the other request can run.                             *)
(***************************************************************************)
Requests == {1, 2}
LLMAgents == {"alpha", "beta"}

\* the model, temperature and maxTokens of an @Agent declaration; each may
\* be left out
ModelNames == {Absent, Present(""), Present("m1"), Present("m2")}
Temperatures == {Absent, Present(0), Present(1)}
MaxTokens == {Absent, Present(100)}
AgentConfigs == [model : ModelNames, temperature : Temperatures,
                 maxTokens : MaxTokens]

\* the instance the host configured as customLLM
HostLLM == [present |-> TRUE, modelName |-> "m0", temperature |-> 5,
            maxTokens |-> 50]

\* AgentFactory.createCustomLLM: the overrides of the agent's configuration
\* are assigned to the fields of the configured instance; the result is the
\* instance after the call.  A model name applies when it is truthy, the
\* two numbers when they are not undefined.
CreateCustomLLM(llm, cfg) ==
    [present |-> TRUE,
     modelName |-> IF cfg.model # Absent /\ cfg.model[1] # ""
                   THEN cfg.model[1] ELSE llm.modelName,
     temperature |-> IF cfg.temperature # Absent
                     THEN cfg.temperature[1] ELSE llm.temperature,
     maxTokens |-> IF cfg.maxTokens # Absent
                   THEN cfg.maxTokens[1] ELSE llm.maxTokens]

\* executeAgentInternal up to the suspension at `await createLLM`: the
\* agent's metadata is read and createLLM, which has no await of its own on
\* the custom branch, has assigned the overrides and returned the instance.
CustomCreateLLM(r, name) ==
    /\ inflight[r].pc = "idle"
    /\ sharedLLM' = CreateCustomLLM(sharedLLM, inflight[r].configs[name])
    /\ inflight' = [inflight EXCEPT ![r].pc = "createAgentExecutor",
                                    ![r].agent = name]
    /\ UNCHANGED <<rlVars, regVars, reqVars, adapter, validation,
                   authentication, repoVars, busVars, observed>>

\* createAgentExecutor, which suspends at `await createOpenAIFunctionsAgent`
\* and wraps the instance it was handed
CustomCreateAgentExecutor(r) ==
    /\ inflight[r].pc = "createAgentExecutor"
    /\ inflight' = [inflight EXCEPT ![r].pc = "invoke"]
    /\ UNCHANGED <<sharedLLM, rlVars, regVars, reqVars, adapter, validation,
                   authentication, repoVars, busVars, observed>>

\* agentExecutor.invoke: the model is called, with the fields the instance
\* has at that moment
CustomInvoke(r) ==
    /\ inflight[r].pc = "invoke"
    /\ inflight' = [inflight EXCEPT ![r].pc = "done",
                                    ![r].used = sharedLLM]
    /\ UNCHANGED <<sharedLLM, rlVars, regVars, reqVars, adapter, validation,
                   authentication, repoVars, busVars, observed>>

InitCustomLLM ==
    /\ now = 0
    /\ config = NoSecurityConfig
    /\ rateLimitStore = EmptyMap
    /\ uncleaned = EmptyMap
    /\ rlLast = NoCall
    /\ admitted = [k \in Keys \cup RequestKeys |-> 0]
    /\ agents = EmptyMap
    /\ tools = <<>>
    /\ aiProvider = [type |-> "custom", customLLM |-> TRUE]
    /\ agentProviders = EmptyMap
    /\ Idle
    /\ adapter = NoAdapterCall
    /\ validation = NoValidation
    /\ authentication = NoAuthenticationCall
    /\ repoLast = NoRepositoryCall
    /\ snapshot = NoSnapshot
    /\ observers = <<>>
    /\ notify = NoNotification
    /\ observed = NoKeyCall
    /\ sharedLLM = HostLLM
    /\ \E a \in AgentConfigs, b \in AgentConfigs :
         inflight = [r \in Requests |->
                        [pc |-> "idle", agent |-> "",
                         configs |-> [alpha |-> a, beta |-> b],
                         used |-> NoCustomLLM]]

NextCustomLLM ==
    \/ \E r \in Requests, name \in LLMAgents : CustomCreateLLM(r, name)
    \/ \E r \in Requests : CustomCreateAgentExecutor(r)
    \/ \E r \in Requests : CustomInvoke(r)

SpecCustomLLM == InitCustomLLM /\ [][NextCustomLLM]_vars

\* C39: the model call of a request sees, for every setting its agent
\* declares, the value its agent declares.
C39_OwnModelSettings ==
    \A r \in Requests :
        inflight[r].pc = "done" =>
            LET cfg == inflight[r].configs[inflight[r].agent]
                used == inflight[r].used
            IN  /\ (cfg.model # Absent /\ cfg.model[1] # "")
                       => used.modelName = cfg.model[1]
                /\ cfg.temperature # Absent
                       => used.temperature = cfg.temperature[1]
                /\ cfg.maxTokens # Absent
                       => used.maxTokens = cfg.maxTokens[1]

(***************************************************************************)
(* SpecDiscovery: module discovery walks the providers of the host, then   *)
(* a caller executes an agent by name through AgentProviderService.        *)
(***************************************************************************)
DiscoveryClasses == {"AlphaAgent", "ComprehensiveAIAgent", "DescribedAgent"}

ProviderNotFound == "Agent provider not found"

\* AgentProviderService.executeAgent up to provider.execute: the debug log
\* reads context.input, the provider is looked up under the name, and the
\* call goes on in the provider's execute.
ProviderExecuteAgent(cls, ctx) ==
    IF ~ctx.null /\ AgentNameOf(cls) \in DOMAIN agentProviders
    THEN Execute(cls, ctx)
    ELSE /\ pc = "idle"
         /\ provider' = cls
         /\ context' = ctx
         /\ Throw(IF ctx.null THEN "TypeError" ELSE ProviderNotFound)
         /\ UNCHANGED <<processedContext, deniedAtEntry, trace, modelInput,
                        modelResult, agentTools, fbIdx, invoked, result,
                        coreError, finalResult, events, rlVars, regVars,
                        callVars>>

InitDiscovery ==
    /\ now = 0
    /\ config = NoSecurityConfig
    /\ rateLimitStore = EmptyMap
    /\ uncleaned = EmptyMap
    /\ rlLast = NoCall
    /\ admitted = [k \in Keys \cup RequestKeys |-> 0]
    /\ agents = EmptyMap
    /\ tools = <<>>
    /\ aiProvider \in AIProviderConfigs
    /\ agentProviders = EmptyMap
    /\ Idle
    /\ adapter = NoAdapterCall
    /\ validation = NoValidation
    /\ authentication = NoAuthenticationCall
    /\ repoLast = NoRepositoryCall
    /\ snapshot = NoSnapshot
    /\ observers = <<>>
    /\ notify = NoNotification
    /\ observed = NoKeyCall
    /\ sharedLLM = NoCustomLLM
    /\ inflight = NoRequests

NextDiscovery ==
    \/ \E cls \in DiscoveryClasses : DiscoverProvider(cls)
    \/ \E cls \in DiscoveryClasses, ctx \in CallerContexts :
          ProviderExecuteAgent(cls, ctx)
    \/ BeforeModelCall
    \/ ExecuteAgent
    \/ CreateLLM
    \/ Invoke
    \/ ExecuteToolsDirectly
    \/ AfterModelCall

SpecDiscovery == InitDiscovery /\ [][NextDiscovery]_vars

\* C40: every provider that discovery has gone through is registered with
\* AgentProviderService under its agent name, and executeAgent on the name
\* of such a provider never fails with 'Agent provider not found'.
C40_DiscoveredProvidersRegistered ==
    /\ \A cls \in DiscoveryClasses :
          AgentExists(agents, AgentNameOf(cls)) =>
              /\ AgentNameOf(cls) \in DOMAIN agentProviders
              /\ agentProviders[AgentNameOf(cls)] = InstanceOf(cls)
    /\ (pc = "done" /\ error = ProviderNotFound) =>
          ~AgentExists(agents, AgentNameOf(provider))

====
